---- MODULE Spec2Model ----
(***************************************************************************)
(* A model of the Sonic polynomial-commitment data structures of           *)
(* algorithms/src/polycommit/sonic_pc/data_structures.rs, followed by      *)
(* models of Integer::div_checked, Field::from_bits_le/be, the Merkle trie *)
(* path gadget and the register comparison of the synthesizer.             *)
(*                                                                         *)
(* Group elements are abstract identifiers (naturals); byte strings are    *)
(* sequences of naturals; a serialized key is a sequence of typed tokens   *)
(* in the order write_le emits them.  `usize as u32` casts are value       *)
(* preserving for every number of the model (all are far below 2^32).      *)
(***************************************************************************)
EXTENDS Integers, Sequences, FiniteSets, TLC

VARIABLES
    ck,        \* the CommitterKey under test
    bytes,     \* the buffer write_le filled (possibly altered afterwards)
    ckop,      \* the last CommitterKey operation and its arguments
    rd,        \* the result of the last read_le
    ret,       \* the result of the last CommitterKey accessor call
    vk,        \* the VerifierKey under test
    pvk,       \* the PreparedVerifierKey prepare() returned
    vkop,      \* the last VerifierKey operation and its argument
    vkret,     \* the result of the last shift-power lookup
    comm,      \* the Commitment being prepared
    cur,       \* Commitment::prepare: the running point
    prepared_comm, \* Commitment::prepare: the vector built so far
    prep_pc,   \* Commitment::prepare: "loop" or "done"
    lc,        \* the LinearCombination under test
    lcop,      \* the last LinearCombination operation and its arguments
    lcprev,    \* the LinearCombination before the last operation
    lcprevop,  \* the operation before the last one
    nops,      \* the number of LinearCombination operations so far
    other,     \* the LinearCombination the assignment operators borrow
    iterated,  \* the (coefficient, term) pairs the last iter() yielded
    polys,     \* evaluate_query_set: the labeled polynomials
    query_set, \* evaluate_query_set: the query set
    evaluations, \* evaluate_query_set: what the call produced
    batch,     \* the BatchLCProof under test
    batchop,   \* the last is_hiding call
    is_hiding, \* what the last is_hiding call returned
    lcomm,     \* the LabeledCommitment under test
    lcomm_out, \* what write_le of the LabeledCommitment wrote
    div,       \* Integer::div_checked: the operands, the call and its outcome
    fbits,     \* Field::from_bits_le / from_bits_be: the bits, the call and its outcome
    trie,      \* MerkleTriePathGadget: the path, the leaf and the computed root
    regs       \* Registers: the console and circuit maps and the last comparison

ckVars == <<ck, bytes, ckop, rd, ret>>

vkVars == <<vk, pvk, vkop, vkret>>

prepVars == <<comm, cur, prepared_comm, prep_pc>>

lcVars == <<lc, lcop, lcprev, lcprevop, nops, other, iterated>>

evalVars == <<polys, query_set, evaluations>>

batchVars == <<batch, batchop, is_hiding>>

lcommVars == <<lcomm, lcomm_out>>

\* the circuit and register components, one record each
gadgetVars == <<div, fbits, trie, regs>>

vars == <<ckVars, vkVars, prepVars, lcVars, evalVars, batchVars, lcommVars, gadgetVars>>

\* the variables an operation of one component leaves alone
notCK == <<vkVars, prepVars, lcVars, evalVars, batchVars, lcommVars, gadgetVars>>

notVK == <<ckVars, prepVars, lcVars, evalVars, batchVars, lcommVars, gadgetVars>>

notPrep == <<ckVars, vkVars, lcVars, evalVars, batchVars, lcommVars, gadgetVars>>

notLC == <<ckVars, vkVars, prepVars, evalVars, batchVars, lcommVars, gadgetVars>>

notEval == <<ckVars, vkVars, prepVars, lcVars, batchVars, lcommVars, gadgetVars>>

notBatch == <<ckVars, vkVars, prepVars, lcVars, evalVars, lcommVars, gadgetVars>>

notLComm == <<ckVars, vkVars, prepVars, lcVars, evalVars, batchVars, gadgetVars>>

dataVars == <<ckVars, vkVars, prepVars, lcVars, evalVars, batchVars, lcommVars>>

notDiv == <<dataVars, fbits, trie, regs>>

notFBits == <<dataVars, div, trie, regs>>

notTrie == <<dataVars, div, fbits, regs>>

notRegs == <<dataVars, div, fbits, trie>>

----------------------------------------------------------------------------
(* Bounds of the model *)

\* largest max_degree of a generated key
MaxDegree == 3
\* largest hiding bound: powers_of_beta_times_gamma_g holds at most MaxHiding + 2 elements
MaxHiding == 0
\* Lagrange bases are generated for the domain sizes 2^0 .. 2^MaxLogDomain
MaxLogDomain == 1
\* the order of the (cyclic) group the commitments live in
GroupOrder == 7
\* the modulus of the coefficient field of the linear combinations
FieldP == 3
\* the largest number of (coefficient, term) items LinearCombination::new is given
MaxItems == 2
\* the largest number of operations on one LinearCombination
MaxOps == 3
\* the largest capacity Vec::with_capacity is certain to obtain; every length
\* of a generated key is below it
AllocLimit == 8
\* the largest number of queries in a query set
MaxQueries == 2
\* the largest number of proofs in a BatchProof
MaxProofs == 3
\* I::BITS of the integer types division is checked on
IntBits == 3
\* the modulus of the base field from_bits_le builds elements of
BaseModulus == 5
\* the largest number of bits beyond size_in_bits a bit list has
MaxExcess == 2
\* P::MAX_DEPTH and P::MAX_BRANCH of the Merkle trie parameters
MaxTrieDepth == 2
MaxBranch == 2
\* the largest number of registers in a register map
MaxRegisters == 2

----------------------------------------------------------------------------
(* Option<T> *)

None == [some |-> FALSE, v |-> <<>>]

Some(x) == [some |-> TRUE, v |-> x]

(* BTreeMap<usize, T> is a function on its key set; iteration is by ascending key. *)

RECURSIVE SortedKeys(_)
SortedKeys(S) ==
    IF S = {} THEN <<>>
    ELSE LET m == CHOOSE x \in S : \A y \in S : x <= y
         IN <<m>> \o SortedKeys(S \ {m})

MapInsert(m, k, val) == [x \in (DOMAIN m) \cup {k} |-> IF x = k THEN val ELSE m[x]]

EmptyMap == [x \in {} |-> <<>>]

RECURSIVE Flatten(_)
Flatten(ss) == IF ss = <<>> THEN <<>> ELSE Head(ss) \o Flatten(Tail(ss))

RECURSIVE Pow2(_)
Pow2(n) == IF n = 0 THEN 1 ELSE 2 * Pow2(n - 1)

----------------------------------------------------------------------------
(* The structured reference string the keys are cut from.  Every element   *)
(* of the SRS is a distinct group element.                                 *)

\* beta^i G
BetaG(i) == 3 * i
\* beta^i gamma G
BetaGammaG(i) == 3 * i + 1
\* the i-th Lagrange basis element of the domain of size n (n a power of two)
LagrangeG(n, i) == 3 * (n - 1 + i) + 2

DomainSizes == {Pow2(k) : k \in 0..MaxLogDomain}

\* strictly ascending sequences over 1..n, the empty one excluded
AscendingBounds(n) == {SortedKeys(S) : S \in (SUBSET (1..n)) \ {{}}}

Last(s) == s[Len(s)]

Range(s) == {s[i] : i \in 1..Len(s)}

Min(a, b) == IF a <= b THEN a ELSE b

\* The key `#[derive(Default)]` builds: every collection empty, every option None.
DefaultKey ==
    [powers_of_beta_g |-> <<>>,
     lagrange_bases_at_beta_g |-> EmptyMap,
     powers_of_beta_times_gamma_g |-> <<>>,
     shifted_powers_of_beta_g |-> None,
     shifted_powers_of_beta_times_gamma_g |-> None,
     enforced_degree_bounds |-> None,
     max_degree |-> 0]

\* A key without degree-bound support, for supported degree sd, hiding bound hb,
\* and the Lagrange domain sizes ls.  edb is None or Some(<<>>).
PlainKey(md, sd, hb, ls, edb) ==
    [powers_of_beta_g |-> [i \in 1..(sd + 1) |-> BetaG(i - 1)],
     lagrange_bases_at_beta_g |-> [n \in ls |-> [i \in 1..n |-> LagrangeG(n, i - 1)]],
     powers_of_beta_times_gamma_g |-> [i \in 1..(hb + 2) |-> BetaGammaG(i - 1)],
     shifted_powers_of_beta_g |-> None,
     shifted_powers_of_beta_times_gamma_g |-> None,
     enforced_degree_bounds |-> edb,
     max_degree |-> md]

\* A key with degree-bound support for the strictly ascending bounds bs: the
\* shared shifted array holds beta^(md - max_bound) G .. beta^md G, and each
\* bound d has its hiding basis beta^(md - d + i) gamma G.
BoundedKey(md, sd, hb, ls, bs) ==
    [PlainKey(md, sd, hb, ls, Some(bs)) EXCEPT
        !.shifted_powers_of_beta_g =
            Some([j \in 1..(Last(bs) + 1) |-> BetaG(md - Last(bs) + j - 1)]),
        !.shifted_powers_of_beta_times_gamma_g =
            Some([d \in Range(bs) |->
                    [i \in 1..Min(hb + 2, d + 2) |-> BetaGammaG(md - d + i - 1)]])]

CommitterKeys ==
    {DefaultKey}
    \cup UNION {{PlainKey(md, sd, hb, ls, edb) :
                    sd \in 0..md, hb \in 0..MaxHiding,
                    ls \in SUBSET DomainSizes, edb \in {None, Some(<<>>)}} :
                md \in 0..MaxDegree}
    \cup UNION {UNION {{BoundedKey(md, sd, hb, ls, bs) :
                            hb \in 0..MaxHiding, ls \in SUBSET DomainSizes,
                            bs \in AscendingBounds(sd)} :
                        sd \in 0..md} :
                md \in 0..MaxDegree}

----------------------------------------------------------------------------
(* The byte stream.  A token is one fixed-size item of the stream: a       *)
(* little-endian u32, a bool, the canonical encoding of a G1Affine point,  *)
(* or a 32-byte digest.                                                    *)

U32Tok(x) == [t |-> "u32", v |-> x]

BoolTok(b) == [t |-> "bool", v |-> IF b THEN 1 ELSE 0]

G1Tok(g) == [t |-> "g1", v |-> g]

HashTok(h) == [t |-> "hash", v |-> h]

\* Vec<G1Affine>::to_bytes_le: the encodings of the elements, one after the
\* other, without a length prefix.
VecToBytesLe(v) == [i \in 1..Len(v) |-> v[i]]

\* sha256, idealised as collision free: the digest stands for its input.
Sha256(input) == [digest_of |-> input]

\* for power in vec { power.write_le(writer) }
WriteElems(v) == [i \in 1..Len(v) |-> G1Tok(v[i])]

\* The hash input write_le builds from self.
WriteHashInput(k) ==
    VecToBytesLe(k.powers_of_beta_g)
    \o VecToBytesLe(k.powers_of_beta_times_gamma_g)
    \o (IF k.shifted_powers_of_beta_g.some
        THEN VecToBytesLe(k.shifted_powers_of_beta_g.v) ELSE <<>>)
    \o (IF k.shifted_powers_of_beta_times_gamma_g.some
        THEN LET m == k.shifted_powers_of_beta_times_gamma_g.v
                 ks == SortedKeys(DOMAIN m)
             IN Flatten([i \in 1..Len(ks) |-> VecToBytesLe(m[ks[i]])])
        ELSE <<>>)

write_le(k) ==
    LET lag  == k.lagrange_bases_at_beta_g
        lks  == SortedKeys(DOMAIN lag)
        sh   == k.shifted_powers_of_beta_g
        shg  == k.shifted_powers_of_beta_times_gamma_g
        sks  == SortedKeys(DOMAIN shg.v)
        edb  == k.enforced_degree_bounds
    IN  <<U32Tok(Len(k.powers_of_beta_g))>> \o WriteElems(k.powers_of_beta_g)
        \o <<U32Tok(Cardinality(DOMAIN lag))>>
        \o Flatten([i \in 1..Len(lks) |-> <<U32Tok(lks[i])>> \o WriteElems(lag[lks[i]])])
        \o <<U32Tok(Len(k.powers_of_beta_times_gamma_g))>>
        \o WriteElems(k.powers_of_beta_times_gamma_g)
        \o <<BoolTok(sh.some)>>
        \o (IF sh.some THEN <<U32Tok(Len(sh.v))>> \o WriteElems(sh.v) ELSE <<>>)
        \o <<BoolTok(shg.some)>>
        \o (IF shg.some
            THEN <<U32Tok(Cardinality(DOMAIN shg.v))>>
                 \o Flatten([i \in 1..Len(sks) |->
                        <<U32Tok(sks[i]), U32Tok(Len(shg.v[sks[i]]))>>
                        \o WriteElems(shg.v[sks[i]])])
            ELSE <<>>)
        \o <<BoolTok(edb.some)>>
        \o (IF edb.some
            THEN <<U32Tok(Len(edb.v))>> \o [i \in 1..Len(edb.v) |-> U32Tok(edb.v[i])]
            ELSE <<>>)
        \o <<U32Tok(k.max_degree)>>
        \o <<HashTok(Sha256(WriteHashInput(k)))>>

----------------------------------------------------------------------------
(* Reading.  Every read returns [err, val, rest]: err is "" on success,    *)
(* val the decoded value and rest the unread part of the stream.           *)

Ok(val, rest) == [err |-> "", val |-> val, rest |-> rest]

Err(e) == [err |-> e, val |-> <<>>, rest |-> <<>>]

\* FromBytes::read_le of one fixed-size item: fails on a short or malformed input.
ReadTok(s, ty) ==
    IF s = <<>> THEN Err("unexpected end of input")
    ELSE IF Head(s).t # ty THEN Err("invalid data")
    ELSE Ok(Head(s).v, Tail(s))

\* for _ in 0..n { vec.push(FromBytes::read_le(reader)?) }
RECURSIVE ReadElems(_, _, _, _)
ReadElems(s, ty, n, acc) ==
    IF n = 0 THEN Ok(acc, s)
    ELSE LET r == ReadTok(s, ty)
         IN IF r.err # "" THEN r ELSE ReadElems(r.rest, ty, n - 1, Append(acc, r.val))

\* the allocator could not provide the announced capacity
AllocationTooLarge == "memory allocation failed"

\* let mut vec = Vec::with_capacity(n); for _ in 0..n { vec.push(read_le(reader)?) }
ReadVec(s, ty, n) ==
    IF n > AllocLimit THEN Err(AllocationTooLarge) ELSE ReadElems(s, ty, n, <<>>)

RECURSIVE ReadLagrangeBasesByIndex(_, _, _)
ReadLagrangeBasesByIndex(s, n, acc) ==
    IF n = 0 THEN Ok(acc, s)
    ELSE LET size == ReadTok(s, "u32")
             basis == ReadVec(size.rest, "g1", size.val)
         IN IF size.err # "" THEN size
            ELSE IF basis.err # "" THEN basis
            ELSE ReadLagrangeBasesByIndex(basis.rest, n - 1, MapInsert(acc, n, basis.val))

\* for _ in 0..n { size; size elements; map.insert(size, basis) }
RECURSIVE ReadLagrangeBases(_, _, _)
ReadLagrangeBases(s, n, acc) ==
    IF n = 0 THEN Ok(acc, s)
    ELSE LET size == ReadTok(s, "u32")
             basis == ReadVec(size.rest, "g1", size.val)
         IN IF size.err # "" THEN size
            ELSE IF basis.err # "" THEN basis
            ELSE ReadLagrangeBases(basis.rest, n - 1, MapInsert(acc, size.val, basis.val))

\* for _ in 0..n { key; value_len; value_len elements; map.insert(key, value) }
RECURSIVE ReadShiftedGamma(_, _, _)
ReadShiftedGamma(s, n, acc) ==
    IF n = 0 THEN Ok(acc, s)
    ELSE LET key == ReadTok(s, "u32")
             len == ReadTok(key.rest, "u32")
             value == ReadVec(len.rest, "g1", len.val)
         IN IF key.err # "" THEN key
            ELSE IF len.err # "" THEN len
            ELSE IF value.err # "" THEN value
            ELSE ReadShiftedGamma(value.rest, n - 1, MapInsert(acc, key.val, value.val))

\* A u32 length followed by that many items of type ty.
ReadLenPrefixed(s, ty) ==
    LET len == ReadTok(s, "u32")
    IN IF len.err # "" THEN len ELSE ReadVec(len.rest, ty, len.val)

\* A bool flag, then (when it is set) a length-prefixed vector: Option<Vec<_>>.
ReadOptionVec(s, ty) ==
    LET has == ReadTok(s, "bool")
        vec == ReadLenPrefixed(has.rest, ty)
    IN IF has.err # "" THEN has
       ELSE IF has.val = 0 THEN Ok(None, has.rest)
       ELSE IF vec.err # "" THEN vec
       ELSE Ok(Some(vec.val), vec.rest)

\* A bool flag, then (when it is set) the map of the shifted hiding bases.
ReadOptionShiftedGamma(s) ==
    LET has == ReadTok(s, "bool")
        num == ReadTok(has.rest, "u32")
        map == ReadShiftedGamma(num.rest, num.val, EmptyMap)
    IN IF has.err # "" THEN has
       ELSE IF has.val = 0 THEN Ok(None, has.rest)
       ELSE IF num.err # "" THEN num
       ELSE IF map.err # "" THEN map
       ELSE Ok(Some(map.val), map.rest)

ReadHashInputUnshifted(powers, gamma, shifted, shifted_gamma) ==
    VecToBytesLe(powers) \o VecToBytesLe(gamma)

\* The hash input read_le builds from the decoded fields.
ReadHashInput(powers, gamma, shifted, shifted_gamma) ==
    VecToBytesLe(powers)
    \o VecToBytesLe(gamma)
    \o (IF shifted.some
        THEN VecToBytesLe(shifted.v) ELSE <<>>)
    \o (IF shifted_gamma.some
        THEN LET m == shifted_gamma.v
                 ks == SortedKeys(DOMAIN m)
             IN Flatten([i \in 1..Len(ks) |-> VecToBytesLe(m[ks[i]])])
        ELSE <<>>)

\* The result of read_le: Ok(key) or Err(err); expected_hash and hash are the
\* two digests the function compares (kept for inspection).
ReadFailed(e) ==
    [kind |-> "Err", err |-> e, key |-> DefaultKey,
     expected_hash |-> Sha256(<<>>), hash |-> Sha256(<<>>)]

IntegrityError == "Mismatching group elements"

read_le(s) ==
    LET powers == ReadLenPrefixed(s, "g1")
        nlag   == ReadTok(powers.rest, "u32")
        lag    == ReadLagrangeBases(nlag.rest, nlag.val, EmptyMap)
        gamma  == ReadLenPrefixed(lag.rest, "g1")
        sh     == ReadOptionVec(gamma.rest, "g1")
        shg    == ReadOptionShiftedGamma(sh.rest)
        edb    == ReadOptionVec(shg.rest, "u32")
        md     == ReadTok(edb.rest, "u32")
        hash   == Sha256(ReadHashInput(powers.val, gamma.val, sh.val, shg.val))
        expected_hash == ReadTok(md.rest, "hash")
    IN  IF powers.err # "" THEN ReadFailed(powers.err)
        ELSE IF nlag.err # "" THEN ReadFailed(nlag.err)
        ELSE IF lag.err # "" THEN ReadFailed(lag.err)
        ELSE IF gamma.err # "" THEN ReadFailed(gamma.err)
        ELSE IF sh.err # "" THEN ReadFailed(sh.err)
        ELSE IF shg.err # "" THEN ReadFailed(shg.err)
        ELSE IF edb.err # "" THEN ReadFailed(edb.err)
        ELSE IF md.err # "" THEN ReadFailed(md.err)
        ELSE IF expected_hash.err # "" THEN ReadFailed(expected_hash.err)
        ELSE IF expected_hash.val # hash
             THEN [ReadFailed(IntegrityError) EXCEPT
                        !.expected_hash = expected_hash.val, !.hash = hash]
        ELSE [kind |-> "Ok", err |-> "",
              key |-> [powers_of_beta_g |-> powers.val,
                       lagrange_bases_at_beta_g |-> lag.val,
                       powers_of_beta_times_gamma_g |-> gamma.val,
                       shifted_powers_of_beta_g |-> sh.val,
                       shifted_powers_of_beta_times_gamma_g |-> shg.val,
                       enforced_degree_bounds |-> edb.val,
                       max_degree |-> md.val],
              expected_hash |-> expected_hash.val, hash |-> hash]

\* the process was aborted inside read_le
ReadAborted == [ReadFailed(AllocationTooLarge) EXCEPT !.kind = "Halt"]

\* What a call of read_le can produce.  An announced capacity above AllocLimit
\* is either refused by the allocator, which aborts the process, or granted,
\* and then the loop runs out of input (the stream is shorter than AllocLimit).
ReadOutcomes(s) ==
    IF read_le(s).err = AllocationTooLarge
    THEN {ReadAborted, ReadFailed("unexpected end of input")}
    ELSE {read_le(s)}

\* For every token write_le emits, what read_le uses it for: "len" is the
\* length of a vector, "count" the number of entries of a map.
WriteLeRoles(k) ==
    LET lag  == k.lagrange_bases_at_beta_g
        lks  == SortedKeys(DOMAIN lag)
        sh   == k.shifted_powers_of_beta_g
        shg  == k.shifted_powers_of_beta_times_gamma_g
        sks  == SortedKeys(DOMAIN shg.v)
        edb  == k.enforced_degree_bounds
        elems(v) == [i \in 1..Len(v) |-> "elem"]
    IN  <<"len">> \o elems(k.powers_of_beta_g)
        \o <<"count">>
        \o Flatten([i \in 1..Len(lks) |-> <<"len">> \o elems(lag[lks[i]])])
        \o <<"len">> \o elems(k.powers_of_beta_times_gamma_g)
        \o <<"flag">>
        \o (IF sh.some THEN <<"len">> \o elems(sh.v) ELSE <<>>)
        \o <<"flag">>
        \o (IF shg.some
            THEN <<"count">>
                 \o Flatten([i \in 1..Len(sks) |-> <<"key", "len">> \o elems(shg.v[sks[i]])])
            ELSE <<>>)
        \o <<"flag">>
        \o (IF edb.some THEN <<"len">> \o elems(edb.v) ELSE <<>>)
        \o <<"max_degree", "hash">>

\* the positions of the length prefixes in write_le(k)
LengthPositions(k) ==
    {i \in 1..Len(WriteLeRoles(k)) : WriteLeRoles(k)[i] \in {"len", "count"}}

----------------------------------------------------------------------------
(* CommitterKey::shifted_powers_of_beta_g.  The result is None, Some of a  *)
(* kzg10::Powers, or Halt when the call panics.                            *)

PowersNone == [kind |-> "None", powers_of_beta_g |-> <<>>, powers_of_beta_times_gamma_g |-> <<>>]

PowersHalt == [kind |-> "Halt", powers_of_beta_g |-> <<>>, powers_of_beta_times_gamma_g |-> <<>>]

PowersSome(p, h) == [kind |-> "Some", powers_of_beta_g |-> p, powers_of_beta_times_gamma_g |-> h]

SliceFromNext(s, start) == SubSeq(s, start + 2, Len(s))

\* s[start..] with a 0-based start; the caller checks start <= Len(s)
SliceFrom(s, start) == SubSeq(s, start + 1, Len(s))

RangeStartAtBound(max_bound, degree_bound) ==
    IF degree_bound.some THEN degree_bound.v ELSE 0

\* the start of powers_range: (max_bound - degree_bound).. or 0..
RangeStart(max_bound, degree_bound) ==
    IF degree_bound.some THEN max_bound - degree_bound.v ELSE 0

shifted_powers_none_if_not_enforced(k, degree_bound) ==
    IF ~(k.shifted_powers_of_beta_g.some /\ k.shifted_powers_of_beta_times_gamma_g.some)
    THEN PowersNone
    ELSE
    LET shifted == k.shifted_powers_of_beta_g.v
        hiding  == k.shifted_powers_of_beta_times_gamma_g.v
        edb     == k.enforced_degree_bounds
    IN  IF ~edb.some \/ edb.v = <<>> THEN PowersHalt
        ELSE
        LET max_bound == Last(edb.v)
            bound == IF degree_bound.some THEN degree_bound.v ELSE max_bound
            start == RangeStart(max_bound, degree_bound)
        IN  IF degree_bound.some /\ degree_bound.v \notin Range(edb.v)
            THEN PowersNone
            ELSE IF start < 0 \/ start > Len(shifted)
            THEN PowersHalt
            ELSE IF bound \notin DOMAIN hiding
            THEN PowersHalt
            ELSE PowersSome(SliceFrom(shifted, start), hiding[bound])

shifted_powers_of_beta_g(k, degree_bound) ==
    IF ~(k.shifted_powers_of_beta_g.some /\ k.shifted_powers_of_beta_times_gamma_g.some)
    THEN PowersNone                                           \* (_, _) => None
    ELSE
    LET shifted == k.shifted_powers_of_beta_g.v
        hiding  == k.shifted_powers_of_beta_times_gamma_g.v
        edb     == k.enforced_degree_bounds
    IN  IF ~edb.some \/ edb.v = <<>> THEN PowersHalt          \* unwrap() of None
        ELSE
        LET max_bound == Last(edb.v)
            bound == IF degree_bound.some THEN degree_bound.v ELSE max_bound
            start == RangeStart(max_bound, degree_bound)
        IN  IF degree_bound.some /\ degree_bound.v \notin Range(edb.v)
            THEN PowersHalt                                   \* assert!(contains)
            ELSE IF start < 0 \/ start > Len(shifted)
            THEN PowersHalt                                   \* usize underflow, slice out of range
            ELSE IF bound \notin DOMAIN hiding
            THEN PowersHalt                                   \* BTreeMap index of a missing key
            ELSE PowersSome(SliceFrom(shifted, start), hiding[bound])

\* An EvaluationDomain of 2^j elements, as far as lagrange_basis uses it.
EvaluationDomain(j) == [size |-> Pow2(j), log_size_of_group |-> j]

\* lagrange_basis with the lookup replaced by "the largest stored basis"
lagrange_basis_largest(k, domain) ==
    LET lag == k.lagrange_bases_at_beta_g
    IN  IF DOMAIN lag = {}
        THEN None
        ELSE Some([lagrange_basis_at_beta_g |-> lag[Last(SortedKeys(DOMAIN lag))],
                   powers_of_beta_times_gamma_g |-> k.powers_of_beta_times_gamma_g,
                   domain |-> domain])

\* CommitterKey::lagrange_basis: `get(&domain.size()).map(..)`.
lagrange_basis(k, domain) ==
    LET lag == k.lagrange_bases_at_beta_g
    IN  IF domain.size \in DOMAIN lag
        THEN Some([lagrange_basis_at_beta_g |-> lag[domain.size],
                   powers_of_beta_times_gamma_g |-> k.powers_of_beta_times_gamma_g,
                   domain |-> domain])
        ELSE None

\* CommitterKey::max_degree
max_degree(k) == k.max_degree

\* CommitterKey::supported_degree: `self.powers_of_beta_g.len() - 1` on usize.
\* On an empty vector the subtraction overflows: with overflow checks the call
\* panics, without them it wraps to usize::MAX, written -1 here (2^64 - 1 is
\* -1 modulo 2^64).
supported_degree(k) ==
    IF Len(k.powers_of_beta_g) = 0
    THEN {[kind |-> "Halt", v |-> 0], [kind |-> "Ok", v |-> -1]}
    ELSE {[kind |-> "Ok", v |-> Len(k.powers_of_beta_g) - 1]}


----------------------------------------------------------------------------
(* VerifierKey and PreparedVerifierKey *)

\* beta^(d - max_degree) H, the G2 shifting element of the degree bound d
NegPowerOfH(md, d) == md - d

\* <E::G2Affine as PairingCurve>::Prepared of a G2 element
G2Prepare(h) == [prepared_g2 |-> h]

\* kzg10::PreparedVerifierKey::prepare of the inner key
KzgPrepare(k) == [prepared_kzg10_vk |-> k]

DefaultVerifierKey ==
    [vk |-> "default",
     degree_bounds_and_neg_powers_of_h |-> None,
     degree_bounds_and_prepared_neg_powers_of_h |-> None,
     supported_degree |-> 0,
     max_degree |-> 0]

\* The verifier key for the enforced bounds bs (strictly ascending, maybe empty);
\* the prepared list is the prepared version of the plain one.
BoundedVerifierKey(md, sd, bs) ==
    [vk |-> "kzg10",
     degree_bounds_and_neg_powers_of_h |->
        Some([i \in 1..Len(bs) |-> <<bs[i], NegPowerOfH(md, bs[i])>>]),
     degree_bounds_and_prepared_neg_powers_of_h |->
        Some([i \in 1..Len(bs) |-> <<bs[i], G2Prepare(NegPowerOfH(md, bs[i]))>>]),
     supported_degree |-> sd,
     max_degree |-> md]

VerifierKeys ==
    {DefaultVerifierKey}
    \cup UNION {{[DefaultVerifierKey EXCEPT !.vk = "kzg10", !.supported_degree = sd,
                                           !.max_degree = md] : sd \in 0..md} :
                md \in 0..MaxDegree}
    \cup UNION {UNION {{BoundedVerifierKey(md, sd, bs) :
                            bs \in AscendingBounds(sd) \cup {<<>>}} :
                        sd \in 0..md} :
                md \in 0..MaxDegree}

\* slice::binary_search_by(|(d, _)| d.cmp(&target)) on v[left..right], 0-based:
\* Some(index) of a match (Ok), None when there is none (Err).
RECURSIVE BinarySearch(_, _, _, _)
BinarySearch(v, target, left, right) ==
    IF left >= right THEN None
    ELSE LET mid == left + ((right - left) \div 2)
         IN IF v[mid + 1][1] < target THEN BinarySearch(v, target, mid + 1, right)
            ELSE IF v[mid + 1][1] > target THEN BinarySearch(v, target, left, mid)
            ELSE Some(mid)

ShiftPowerOfFirstPair(list, degree_bound) ==
    IF ~list.some THEN None
    ELSE LET i == BinarySearch(list.v, degree_bound, 0, Len(list.v))
         IN IF i.some THEN Some(list.v[1][2]) ELSE None

\* Option::and_then(|v| v.binary_search_by(..).ok().map(|i| v[i].1))
ShiftPowerIn(list, degree_bound) ==
    IF ~list.some THEN None
    ELSE LET i == BinarySearch(list.v, degree_bound, 0, Len(list.v))
         IN IF i.some THEN Some(list.v[i.v + 1][2]) ELSE None

get_shift_power(k, degree_bound) ==
    ShiftPowerIn(k.degree_bounds_and_neg_powers_of_h, degree_bound)

get_prepared_shift_power(p, bound) ==
    ShiftPowerIn(p.degree_bounds_and_prepared_neg_powers_of_h, bound)

PrepareDropsBounds(k) ==
    [prepared_vk |-> KzgPrepare(k.vk),
     degree_bounds_and_prepared_neg_powers_of_h |-> None,
     max_degree |-> k.max_degree,
     supported_degree |-> k.supported_degree]

\* <VerifierKey as Prepare>::prepare
prepare(k) ==
    [prepared_vk |-> KzgPrepare(k.vk),
     degree_bounds_and_prepared_neg_powers_of_h |->
        k.degree_bounds_and_prepared_neg_powers_of_h,
     max_degree |-> k.max_degree,
     supported_degree |-> k.supported_degree]

NotPrepared == prepare(DefaultVerifierKey)

----------------------------------------------------------------------------
(* Commitment::prepare.  G1 is a cyclic group of order GroupOrder; a point  *)
(* is its discrete logarithm, in affine and in projective form alike.      *)

\* the number of iterations of the loop of Commitment::prepare
LadderLen == 128

Points == 0..(GroupOrder - 1)

\* G1Projective::double_in_place
Double(p) == (2 * p) % GroupOrder

----------------------------------------------------------------------------
(* LCTerm and LinearCombination<F>.  F is the field of integers modulo     *)
(* FieldP; a String is the sequence of its bytes; BTreeMap<LCTerm, F> is a *)
(* function on the set of its terms.                                       *)

F == 0..(FieldP - 1)

FAdd(a, b) == (a + b) % FieldP

FNeg(a) == (FieldP - a) % FieldP

FMul(a, b) == (a * b) % FieldP

\* LCTerm::One
One == [tag |-> "One", label |-> <<>>]

\* LCTerm::PolyLabel(s)
PolyLabel(s) == [tag |-> "PolyLabel", label |-> s]

\* the strings "x", "y", "l" and "m"
StrX == <<120>>

StrY == <<121>>

StrL == <<108>>

StrM == <<109>>

LCTerms == {One, PolyLabel(StrX), PolyLabel(StrY)}

LCLabels == {StrL, StrM}

NoTerms == [t \in {} |-> 0]

MapRemove(m, k) == [x \in (DOMAIN m) \ {k} |-> m[x]]

\* terms.entry(t).or_insert(F::zero()): the coefficient of t, zero when absent
EntryOrZero(terms, t) == IF t \in DOMAIN terms THEN terms[t] ELSE 0

\* LinearCombination::empty
lc_empty(label) == [label |-> label, terms |-> NoTerms]

RECURSIVE NewTermsLastWins(_, _)
NewTermsLastWins(items, terms) ==
    IF items = <<>> THEN terms
    ELSE NewTermsLastWins(Tail(items), MapInsert(terms, Head(items)[2], Head(items)[1]))

\* the loop of LinearCombination::new: *terms.entry(l).or_insert(F::zero()) += c
RECURSIVE NewTerms(_, _)
NewTerms(items, terms) ==
    IF items = <<>> THEN terms
    ELSE LET c == Head(items)[1]
             l == Head(items)[2]
         IN NewTerms(Tail(items), MapInsert(terms, l, FAdd(EntryOrZero(terms, l), c)))

\* LinearCombination::new
lc_new(label, items) == [label |-> label, terms |-> NewTerms(items, NoTerms)]

lc_add_keeps_zero(L, c, t) ==
    [L EXCEPT !.terms = MapInsert(L.terms, t, FAdd(EntryOrZero(L.terms, t), c))]

\* LinearCombination::add
lc_add(L, c, t) ==
    LET added == MapInsert(L.terms, t, FAdd(EntryOrZero(L.terms, t), c))
    IN [L EXCEPT !.terms = IF added[t] = 0 THEN MapRemove(added, t) ELSE added]

\* String::cmp: lexicographic comparison of the bytes
RECURSIVE StrLess(_, _)
StrLess(a, b) ==
    IF b = <<>> THEN FALSE
    ELSE IF a = <<>> THEN TRUE
    ELSE IF Head(a) # Head(b) THEN Head(a) < Head(b)
    ELSE StrLess(Tail(a), Tail(b))

\* the position of a variant in the declaration of the enum
VariantIndex(t) == IF t.tag = "One" THEN 0 ELSE 1

LCTermLessLabelsFirst(a, b) ==
    IF VariantIndex(a) # VariantIndex(b) THEN VariantIndex(a) > VariantIndex(b)
    ELSE a.tag = "PolyLabel" /\ StrLess(a.label, b.label)

\* #[derive(Ord, PartialOrd)] on LCTerm: by variant, then by the String inside
LCTermLess(a, b) ==
    IF VariantIndex(a) # VariantIndex(b) THEN VariantIndex(a) < VariantIndex(b)
    ELSE a.tag = "PolyLabel" /\ StrLess(a.label, b.label)

\* #[derive(Eq, PartialEq)] on LCTerm
LCTermEq(a, b) ==
    /\ VariantIndex(a) = VariantIndex(b)
    /\ a.tag = "PolyLabel" => a.label = b.label

\* impl PartialEq<B: Borrow<String>> for LCTerm
LCTermEqString(t, str) == IF t.tag = "One" THEN FALSE ELSE t.label = str

\* the keys of a BTreeMap<LCTerm, F> in the order its iterators visit them
RECURSIVE SortedTerms(_)
SortedTerms(S) ==
    IF S = {} THEN <<>>
    ELSE LET least == CHOOSE t \in S : \A u \in S \ {t} : LCTermLess(t, u)
         IN <<least>> \o SortedTerms(S \ {least})

\* LinearCombination::iter
lc_iter(L) ==
    LET ts == SortedTerms(DOMAIN L.terms)
    IN [i \in 1..Len(ts) |-> <<L.terms[ts[i]], ts[i]>>]

AddEachKeepsZero(L, pairs) ==
    [L EXCEPT !.terms = [t \in DOMAIN L.terms \cup {pairs[i][2] : i \in 1..Len(pairs)} |->
        IF \E i \in 1..Len(pairs) : pairs[i][2] = t
        THEN FAdd(EntryOrZero(L.terms, t),
                  pairs[CHOOSE i \in 1..Len(pairs) : pairs[i][2] = t][1])
        ELSE L.terms[t]]]

\* for (t, c) in other.terms.iter() { self.add(.., t.clone()); }
RECURSIVE AddEach(_, _)
AddEach(L, pairs) ==
    IF pairs = <<>> THEN L
    ELSE AddEach(lc_add(L, Head(pairs)[1], Head(pairs)[2]), Tail(pairs))

\* The scalar dropped.
lc_add_assign_unscaled(L, coeff, M) == AddEach(L, lc_iter(M))

\* self += (coeff, &other)
lc_add_assign_scaled(L, coeff, M) ==
    LET it == lc_iter(M)
    IN AddEach(L, [i \in 1..Len(it) |-> <<FMul(coeff, it[i][1]), it[i][2]>>])

lc_sub_assign_scaled_unnegated(L, coeff, M) ==
    LET it == lc_iter(M)
    IN AddEach(L, [i \in 1..Len(it) |-> <<FMul(coeff, it[i][1]), it[i][2]>>])

\* self -= (coeff, &other)
lc_sub_assign_scaled(L, coeff, M) ==
    LET it == lc_iter(M)
    IN AddEach(L, [i \in 1..Len(it) |-> <<FMul(FNeg(coeff), it[i][1]), it[i][2]>>])

\* self += &other
lc_add_assign(L, M) == AddEach(L, lc_iter(M))

\* self -= &other
lc_sub_assign(L, M) ==
    LET it == lc_iter(M)
    IN AddEach(L, [i \in 1..Len(it) |-> <<FNeg(it[i][1]), it[i][2]>>])

\* self += coeff
lc_add_assign_const(L, coeff) == lc_add(L, coeff, One)

\* self -= coeff
lc_sub_assign_const(L, coeff) == lc_add(L, FNeg(coeff), One)

lc_mul_assign_pruned(L, coeff) ==
    [L EXCEPT !.terms =
        [t \in {u \in DOMAIN L.terms : FMul(L.terms[u], coeff) # 0} |-> FMul(L.terms[t], coeff)]]

\* self *= coeff
lc_mul_assign(L, coeff) ==
    [L EXCEPT !.terms = [t \in DOMAIN L.terms |-> FMul(L.terms[t], coeff)]]

NoLC == lc_empty(<<>>)

NoOp == [name |-> "none", label |-> <<>>, items |-> <<>>, c |-> 0, t |-> One]

RECURSIVE SeqsUpTo(_, _)
SeqsUpTo(S, n) ==
    IF n = 0 THEN {<<>>}
    ELSE LET shorter == SeqsUpTo(S, n - 1)
         IN shorter \cup {Append(q, x) : q \in shorter, x \in S}

\* the item lists LinearCombination::new is called with
ItemLists == SeqsUpTo(F \X LCTerms, MaxItems)

\* the combinations the assignment operators are applied to
StartLCs == {lc_new(StrL, items) : items \in ItemLists}

\* the combinations they borrow: a constant and a multiple of "x", each
\* with coefficient zero or one
OtherLCs ==
    {lc_new(StrM, <<<<a, One>>, <<b, PolyLabel(StrX)>>>>) : a \in 0..1, b \in 0..1}

----------------------------------------------------------------------------
(* QuerySet, Evaluations and evaluate_query_set.  A LabeledPolynomial is    *)
(* its label and its coefficients, lowest degree first.                    *)

\* the strings "p", "q", "r", "z" and "w"
StrP == <<112>>

StrQ == <<113>>

StrR == <<114>>

StrZ == <<122>>

StrW == <<119>>

LabeledPoly(label, coeffs) == [label |-> label, coeffs |-> coeffs]

\* poly.evaluate(point)
RECURSIVE Evaluate(_, _)
Evaluate(coeffs, point) ==
    IF coeffs = <<>> THEN 0
    ELSE FAdd(Head(coeffs) % FieldP, FMul(point, Evaluate(Tail(coeffs), point)))

\* polys.into_iter().map(|p| (p.label(), p)).collect::<HashMap<_, _>>():
\* a later polynomial replaces an earlier one with the same label
PolysByLabel(ps) ==
    LET last(l) == CHOOSE i \in 1..Len(ps) :
                        /\ ps[i].label = l
                        /\ \A j \in 1..Len(ps) : ps[j].label = l => j <= i
    IN [l \in {ps[i].label : i \in 1..Len(ps)} |-> ps[last(l)]]

\* an element (label, (point_name, point)) of a QuerySet
Query(label, point_name, point) == <<label, <<point_name, point>>>>

\* the order of BTreeSet<(String, (String, F))>
QueryLess(a, b) ==
    \/ StrLess(a[1], b[1])
    \/ /\ a[1] = b[1]
       /\ \/ StrLess(a[2][1], b[2][1])
          \/ a[2][1] = b[2][1] /\ a[2][2] < b[2][2]

\* the queries in the order the loop visits them
RECURSIVE SortedQueries(_)
SortedQueries(S) ==
    IF S = {} THEN <<>>
    ELSE LET least == CHOOSE q \in S : \A r \in S \ {q} : QueryLess(q, r)
         IN <<least>> \o SortedQueries(S \ {least})

NoEvaluations == [k \in {} |-> 0]

\* the call has not been made / returned the map / panicked in expect()
EvalNone == [kind |-> "None", map |-> NoEvaluations]

EvalOk(m) == [kind |-> "Ok", map |-> m]

EvalHalt == [kind |-> "Halt", map |-> NoEvaluations]

RECURSIVE EvalLoopFirstOnly(_, _, _)
EvalLoopFirstOnly(qs, by_label, acc) ==
    IF qs = <<>> THEN EvalOk(acc)
    ELSE IF Head(qs)[1] \notin DOMAIN by_label THEN EvalHalt
    ELSE EvalOk(MapInsert(acc, <<Head(qs)[1], Head(qs)[2][2]>>,
                          Evaluate(by_label[Head(qs)[1]].coeffs, Head(qs)[2][2])))

RECURSIVE EvalLoopSkipsMissing(_, _, _)
EvalLoopSkipsMissing(qs, by_label, acc) ==
    IF qs = <<>> THEN EvalOk(acc)
    ELSE IF Head(qs)[1] \notin DOMAIN by_label
         THEN EvalLoopSkipsMissing(Tail(qs), by_label, acc)
    ELSE EvalLoopSkipsMissing(Tail(qs), by_label,
            MapInsert(acc, <<Head(qs)[1], Head(qs)[2][2]>>,
                      Evaluate(by_label[Head(qs)[1]].coeffs, Head(qs)[2][2])))

\* for (label, (_point_name, point)) in query_set { .. }
RECURSIVE EvalLoop(_, _, _)
EvalLoop(qs, by_label, acc) ==
    IF qs = <<>> THEN EvalOk(acc)
    ELSE LET label == Head(qs)[1]
             point == Head(qs)[2][2]
         IN IF label \notin DOMAIN by_label THEN EvalHalt
            ELSE EvalLoop(Tail(qs), by_label,
                    MapInsert(acc, <<label, point>>, Evaluate(by_label[label].coeffs, point)))

evaluate_query_set(ps, qset) == EvalLoop(SortedQueries(qset), PolysByLabel(ps), NoEvaluations)

\* the polynomials x^2 + 1, x and x + 1
PolyCoeffs == {<<1, 0, 1>>, <<0, 1>>, <<1, 1>>}

\* no polynomial, "p" alone, "p" and "q" in either order, and "p" twice
PolyLists ==
    {<<>>}
    \cup {<<LabeledPoly(StrP, a)>> : a \in PolyCoeffs}
    \cup {<<LabeledPoly(StrP, a), LabeledPoly(StrQ, b)>> : a \in PolyCoeffs, b \in PolyCoeffs}
    \cup {<<LabeledPoly(StrQ, b), LabeledPoly(StrP, a)>> : a \in PolyCoeffs, b \in PolyCoeffs}
    \cup {<<LabeledPoly(StrP, a), LabeledPoly(StrP, b)>> : a \in PolyCoeffs, b \in PolyCoeffs}

Queries == {Query(l, n, pt) : l \in {StrP, StrQ, StrR}, n \in {StrZ, StrW}, pt \in F}

RECURSIVE SetsUpTo(_, _)
SetsUpTo(S, n) ==
    IF n = 0 THEN {{}}
    ELSE LET smaller == SetsUpTo(S, n - 1)
         IN smaller \cup {T \cup {x} : T \in smaller, x \in S}

QuerySets == SetsUpTo(Queries, MaxQueries)

----------------------------------------------------------------------------
(* BatchProof and BatchLCProof.  A KZGProof is its witness commitment and  *)
(* its optional hiding randomness.                                         *)

KZGProof(w, random_v) == [w |-> w, random_v |-> random_v]

\* c.is_hiding()
ProofIsHiding(c) == c.random_v.some

batch_proof_all_hiding(proofs) == \A i \in 1..Len(proofs) : ProofIsHiding(proofs[i])

\* BatchProof::is_hiding: self.0.iter().any(|c| c.is_hiding())
RECURSIVE batch_proof_is_hiding(_)
batch_proof_is_hiding(proofs) ==
    IF proofs = <<>> THEN FALSE
    ELSE IF ProofIsHiding(Head(proofs)) THEN TRUE
    ELSE batch_proof_is_hiding(Tail(proofs))

\* BatchLCProof::is_hiding
batch_lc_proof_is_hiding(b) == batch_proof_is_hiding(b.proof)

KZGProofs == {KZGProof(0, rv) : rv \in {None, Some(0), Some(1)}}

EvaluationOptions == {None, Some(<<>>), Some(<<1>>)}

BatchLCProofs ==
    {[proof |-> ps, evaluations |-> ev] : ps \in SeqsUpTo(KZGProofs, MaxProofs), ev \in EvaluationOptions}

----------------------------------------------------------------------------
(* LabeledCommitment.  The canonical compressed encoding of a commitment   *)
(* is the little-endian bytes of its identifier.                           *)

LabeledCommitment(label, commitment, degree_bound) ==
    [label |-> label, commitment |-> commitment, degree_bound |-> degree_bound]

\* CanonicalSerialize::serialize_compressed(&commitment, writer)
SerializeCompressed(commitment) == <<commitment % 256, (commitment \div 256) % 256>>

labeled_commitment_write_le_with_label(c) == c.label \o SerializeCompressed(c.commitment)

\* ToBytes::write_le for LabeledCommitment
labeled_commitment_write_le(c) == SerializeCompressed(c.commitment)

LabeledCommitments ==
    {LabeledCommitment(l, c, b) :
        l \in {StrP, StrQ}, c \in Points, b \in {None} \cup {Some(d) : d \in 0..MaxDegree}}

----------------------------------------------------------------------------
(* The CommitterKey state machine: a key is written, the buffer may be     *)
(* corrupted in one group element, and is read back; the accessors are     *)
(* called on the key.                                                      *)

NoRead == ReadFailed("")

IdleCK ==
    /\ bytes = <<>>
    /\ ckop = [name |-> "init", arg |-> None]
    /\ rd = NoRead
    /\ ret = PowersNone

IdleVK ==
    /\ pvk = NotPrepared
    /\ vkop = [name |-> "init", arg |-> 0]
    /\ vkret = None

IdlePrep ==
    /\ cur = comm
    /\ prepared_comm = <<>>
    /\ prep_pc = "loop"

IdleLC ==
    /\ lc = NoLC
    /\ lcop = NoOp
    /\ lcprev = NoLC
    /\ lcprevop = NoOp
    /\ nops = 0
    /\ other = NoLC
    /\ iterated = <<>>

IdleEval ==
    /\ query_set = {}
    /\ evaluations = EvalNone

IdleBatch ==
    /\ batchop = "init"
    /\ is_hiding = FALSE

IdleLComm == lcomm_out = <<>>

\* a component no operation of the specification touches
ParkedEval == polys = <<>> /\ IdleEval

ParkedBatch == batch = [proof |-> <<>>, evaluations |-> None] /\ IdleBatch

ParkedLComm == lcomm = LabeledCommitment(<<>>, 0, None) /\ IdleLComm

NoCall == [op |-> "none"]

ParkedDiv == div = NoCall

ParkedFBits == fbits = NoCall

ParkedTrie == trie = NoCall

ParkedRegs == regs = NoCall

ParkedGadgets == ParkedDiv /\ ParkedFBits /\ ParkedTrie /\ ParkedRegs

ParkedData == ParkedEval /\ ParkedBatch /\ ParkedLComm /\ ParkedGadgets

ParkedCK == ck = DefaultKey /\ IdleCK

ParkedVK == vk = DefaultVerifierKey /\ IdleVK

ParkedPrep == comm = 0 /\ IdlePrep

ParkedLC == IdleLC

\* every component of the polynomial-commitment data structures parked
ParkedPC == ParkedCK /\ ParkedVK /\ ParkedPrep /\ ParkedLC /\ ParkedEval /\ ParkedBatch /\ ParkedLComm

InitCK ==
    /\ ck \in CommitterKeys
    /\ IdleCK
    /\ ParkedVK /\ ParkedPrep /\ ParkedLC /\ ParkedData

InitVK ==
    /\ vk \in VerifierKeys
    /\ IdleVK
    /\ ParkedCK /\ ParkedPrep /\ ParkedLC /\ ParkedData

InitPrep ==
    /\ comm \in Points
    /\ IdlePrep
    /\ ParkedCK /\ ParkedVK /\ ParkedLC /\ ParkedData

InitLC == IdleLC /\ ParkedCK /\ ParkedVK /\ ParkedPrep /\ ParkedData

\* a group element a corrupted encoding may decode to
TamperValues == {BetaG(0), BetaGammaG(0)}

\* the degree bounds the accessors are called with
BoundArgs == {None} \cup {Some(d) : d \in 0..(MaxDegree + 1)}

WriteLe ==
    /\ ckop.name = "init"
    /\ bytes' = write_le(ck)
    /\ ckop' = [name |-> "write_le", arg |-> None]
    /\ UNCHANGED <<ck, rd, ret, notCK>>

\* One group element of the serialized key is replaced by another one.
Tamper ==
    /\ ckop.name = "write_le"
    /\ \E i \in 1..Len(bytes), g \in TamperValues :
        /\ bytes[i].t = "g1"
        /\ bytes[i].v # g
        /\ bytes' = [bytes EXCEPT ![i].v = g]
        /\ ckop' = [name |-> "tamper", arg |-> Some(i)]
    /\ UNCHANGED <<ck, rd, ret, notCK>>

\* The serialized key is cut short.
Truncate ==
    /\ ckop.name = "write_le"
    /\ \E n \in 0..(Len(bytes) - 1) :
        /\ bytes' = SubSeq(bytes, 1, n)
        /\ ckop' = [name |-> "truncate", arg |-> Some(n)]
    /\ UNCHANGED <<ck, rd, ret, notCK>>

\* One length prefix of the serialized key is replaced by a larger number.
Inflate ==
    /\ ckop.name = "write_le"
    /\ \E i \in LengthPositions(ck) :
        \E n \in {bytes[i].v + 1, AllocLimit + 1} :
            /\ bytes' = [bytes EXCEPT ![i].v = n]
            /\ ckop' = [name |-> "inflate", arg |-> Some(i)]
    /\ UNCHANGED <<ck, rd, ret, notCK>>

ReadLe ==
    /\ ckop.name \in {"write_le", "tamper", "truncate", "inflate"}
    /\ rd' \in ReadOutcomes(bytes)
    /\ ckop' = [name |-> "read_le", arg |-> ckop.arg]
    /\ UNCHANGED <<ck, bytes, ret, notCK>>

ShiftedPowers ==
    /\ ckop.name = "init"
    /\ \E b \in BoundArgs :
        /\ ret' = shifted_powers_of_beta_g(ck, b)
        /\ ckop' = [name |-> "shifted_powers_of_beta_g", arg |-> b]
    /\ UNCHANGED <<ck, bytes, rd, notCK>>

NextCK ==
    \/ WriteLe
    \/ Tamper
    \/ ReadLe
    \/ ShiftedPowers

SpecCK == InitCK /\ [][NextCK]_vars

\* The same, with a truncated or over-announcing buffer instead of an
\* altered group element.
NextCKMalformed ==
    \/ WriteLe
    \/ Truncate
    \/ Inflate
    \/ ReadLe

SpecCKMalformed == InitCK /\ [][NextCKMalformed]_vars

\* Keys assembled field by field (every field of CommitterKey is public): a
\* generated key with one shifted field or the list of bounds taken away.
FieldwiseKeys ==
    CommitterKeys
    \cup {[k EXCEPT !.shifted_powers_of_beta_times_gamma_g = None] : k \in CommitterKeys}
    \cup {[k EXCEPT !.shifted_powers_of_beta_g = None] : k \in CommitterKeys}
    \cup {[k EXCEPT !.enforced_degree_bounds = e] :
            k \in CommitterKeys, e \in {None, Some(<<>>)}}

InitCKAccess ==
    /\ ck \in FieldwiseKeys
    /\ IdleCK
    /\ ParkedVK /\ ParkedPrep /\ ParkedLC /\ ParkedData

\* An accessor is called on the key itself, or on the key read_le returned.
CanAccess == ckop.name = "init" \/ (ckop.name = "read_le" /\ rd.kind = "Ok")

AccessedKey == IF ckop.name = "read_le" THEN rd.key ELSE ck

Accessed(out) == [key |-> AccessedKey, from |-> ckop.name, out |-> out]

ShiftedPowersNoBound ==
    /\ CanAccess
    /\ ret' = Accessed(shifted_powers_of_beta_g(AccessedKey, None))
    /\ ckop' = [name |-> "shifted_powers_of_beta_g", arg |-> None]
    /\ UNCHANGED <<ck, bytes, rd, notCK>>

SupportedDegree ==
    /\ CanAccess
    /\ \E out \in supported_degree(AccessedKey) : ret' = Accessed(out)
    /\ ckop' = [name |-> "supported_degree", arg |-> None]
    /\ UNCHANGED <<ck, bytes, rd, notCK>>

LagrangeBasis ==
    /\ CanAccess
    /\ \E j \in 0..(MaxLogDomain + 1) :
        /\ ret' = Accessed(lagrange_basis(AccessedKey, EvaluationDomain(j)))
        /\ ckop' = [name |-> "lagrange_basis", arg |-> Some(EvaluationDomain(j))]
    /\ UNCHANGED <<ck, bytes, rd, notCK>>

NextCKAccess ==
    \/ WriteLe
    \/ ReadLe
    \/ ShiftedPowersNoBound
    \/ SupportedDegree
    \/ LagrangeBasis

SpecCKAccess == InitCKAccess /\ [][NextCKAccess]_vars

\* The VerifierKey state machine: a key is looked up, or prepared and then looked up.

GetShiftPower ==
    /\ vkop.name = "init"
    /\ \E b \in 0..(MaxDegree + 1) :
        /\ vkret' = get_shift_power(vk, b)
        /\ vkop' = [name |-> "get_shift_power", arg |-> b]
    /\ UNCHANGED <<vk, pvk, notVK>>

Prepare ==
    /\ vkop.name = "init"
    /\ pvk' = prepare(vk)
    /\ vkop' = [name |-> "prepare", arg |-> 0]
    /\ UNCHANGED <<vk, vkret, notVK>>

GetPreparedShiftPower ==
    /\ vkop.name = "prepare"
    /\ \E b \in 0..(MaxDegree + 1) :
        /\ vkret' = get_prepared_shift_power(pvk, b)
        /\ vkop' = [name |-> "get_prepared_shift_power", arg |-> b]
    /\ UNCHANGED <<vk, pvk, notVK>>

NextVK ==
    \/ GetShiftPower
    \/ Prepare
    \/ GetPreparedShiftPower

SpecVK == InitVK /\ [][NextVK]_vars

\* Commitment::prepare, one loop iteration at a time.

PrepareStepDoublesFirst ==
    /\ prep_pc = "loop"
    /\ Len(prepared_comm) < LadderLen
    /\ prepared_comm' = Append(prepared_comm, Double(cur))
    /\ cur' = Double(cur)
    /\ UNCHANGED <<comm, prep_pc, notPrep>>

\* one iteration of `for _ in 0..128`
PrepareStep ==
    /\ prep_pc = "loop"
    /\ Len(prepared_comm) < LadderLen
    /\ prepared_comm' = Append(prepared_comm, cur)
    /\ cur' = Double(cur)
    /\ UNCHANGED <<comm, prep_pc, notPrep>>

\* the loop is over: kzg10::PreparedKZGCommitment(prepared_comm) is returned
PrepareReturn ==
    /\ prep_pc = "loop"
    /\ Len(prepared_comm) = LadderLen
    /\ prep_pc' = "done"
    /\ UNCHANGED <<comm, cur, prepared_comm, notPrep>>

NextPrep ==
    \/ PrepareStep
    \/ PrepareReturn

SpecPrep == InitPrep /\ [][NextPrep]_vars

\* The LinearCombination state machine: a combination is constructed and
\* then changed by at most MaxOps - 1 further operations.

LcEmpty ==
    /\ nops = 0
    /\ \E label \in LCLabels :
        /\ lc' = lc_empty(label)
        /\ lcop' = [NoOp EXCEPT !.name = "empty", !.label = label]
    /\ lcprev' = lc
    /\ lcprevop' = lcop
    /\ nops' = nops + 1
    /\ UNCHANGED <<other, iterated>>
    /\ UNCHANGED notLC

LcNew ==
    /\ nops = 0
    /\ \E label \in LCLabels, items \in ItemLists :
        /\ lc' = lc_new(label, items)
        /\ lcop' = [NoOp EXCEPT !.name = "new", !.label = label, !.items = items]
    /\ lcprev' = lc
    /\ lcprevop' = lcop
    /\ nops' = nops + 1
    /\ UNCHANGED <<other, iterated>>
    /\ UNCHANGED notLC

LcAdd ==
    /\ nops > 0
    /\ nops < MaxOps
    /\ \E c \in F, t \in LCTerms :
        /\ lc' = lc_add(lc, c, t)
        /\ lcop' = [NoOp EXCEPT !.name = "add", !.c = c, !.t = t]
    /\ lcprev' = lc
    /\ lcprevop' = lcop
    /\ nops' = nops + 1
    /\ UNCHANGED <<other, iterated>>
    /\ UNCHANGED notLC

NextLC ==
    \/ LcEmpty
    \/ LcNew
    \/ LcAdd

SpecLC == InitLC /\ [][NextLC]_vars

\* The assignment operators: a combination built earlier, with one operation
\* of the budget of MaxOps left, is changed by one operation, which may
\* borrow the combination `other`; it can be iterated before and after.

InitLCAssign ==
    /\ lc \in StartLCs
    /\ other \in OtherLCs
    /\ lcop = NoOp
    /\ lcprev = NoLC
    /\ lcprevop = NoOp
    /\ nops = MaxOps - 1
    /\ iterated = <<>>
    /\ ParkedCK /\ ParkedVK /\ ParkedPrep /\ ParkedData

\* what every operation on the combination records
LcRecord(name, c) ==
    /\ nops < MaxOps
    /\ lcop' = [NoOp EXCEPT !.name = name, !.c = c]
    /\ lcprev' = lc
    /\ lcprevop' = lcop
    /\ nops' = nops + 1
    /\ other' = other
    /\ UNCHANGED notLC

LcAddAssignScaled ==
    \E coeff \in F :
        /\ lc' = lc_add_assign_scaled(lc, coeff, other)
        /\ LcRecord("add_assign_scaled", coeff)
        /\ UNCHANGED iterated

LcSubAssignScaled ==
    \E coeff \in F :
        /\ lc' = lc_sub_assign_scaled(lc, coeff, other)
        /\ LcRecord("sub_assign_scaled", coeff)
        /\ UNCHANGED iterated

LcAddAssign ==
    /\ lc' = lc_add_assign(lc, other)
    /\ LcRecord("add_assign", 0)
    /\ UNCHANGED iterated

LcSubAssign ==
    /\ lc' = lc_sub_assign(lc, other)
    /\ LcRecord("sub_assign", 0)
    /\ UNCHANGED iterated

LcAddAssignConst ==
    \E coeff \in F :
        /\ lc' = lc_add_assign_const(lc, coeff)
        /\ LcRecord("add_assign_const", coeff)
        /\ UNCHANGED iterated

LcSubAssignConst ==
    \E coeff \in F :
        /\ lc' = lc_sub_assign_const(lc, coeff)
        /\ LcRecord("sub_assign_const", coeff)
        /\ UNCHANGED iterated

LcMulAssign ==
    \E coeff \in F :
        /\ lc' = lc_mul_assign(lc, coeff)
        /\ LcRecord("mul_assign", coeff)
        /\ UNCHANGED iterated

LcIter ==
    /\ lcop.name # "iter"
    /\ iterated' = lc_iter(lc)
    /\ lcop' = [NoOp EXCEPT !.name = "iter"]
    /\ lcprev' = lc
    /\ lcprevop' = lcop
    /\ UNCHANGED <<lc, nops, other, notLC>>

NextLCAssign ==
    \/ LcAdd
    \/ LcAddAssignScaled
    \/ LcSubAssignScaled
    \/ LcAddAssign
    \/ LcSubAssign
    \/ LcAddAssignConst
    \/ LcSubAssignConst
    \/ LcMulAssign
    \/ LcIter

SpecLCAssign == InitLCAssign /\ [][NextLCAssign]_vars

\* A scaled addition followed by the scaled subtraction of the same multiple
\* of the same combination, and single calls of add.
InitLCUndo ==
    /\ lc \in StartLCs
    /\ other \in OtherLCs
    /\ lcop = NoOp
    /\ lcprev = NoLC
    /\ lcprevop = NoOp
    /\ nops = 1
    /\ iterated = <<>>
    /\ ParkedCK /\ ParkedVK /\ ParkedPrep /\ ParkedData

LcAddOnce == lcop.name = "none" /\ LcAdd

LcAddAssignScaledOnce == lcop.name = "none" /\ LcAddAssignScaled

\* self -= (coeff, &other) with the arguments of the preceding +=; lcprev
\* keeps the combination the += started from
LcSubAssignScaledBack ==
    /\ lcop.name = "add_assign_scaled"
    /\ lc' = lc_sub_assign_scaled(lc, lcop.c, other)
    /\ lcop' = [NoOp EXCEPT !.name = "sub_assign_scaled", !.c = lcop.c]
    /\ lcprevop' = lcop
    /\ nops' = nops + 1
    /\ UNCHANGED <<lcprev, other, iterated>>
    /\ UNCHANGED notLC

NextLCUndo ==
    \/ LcAddOnce
    \/ LcAddAssignScaledOnce
    \/ LcSubAssignScaledBack

SpecLCUndo == InitLCUndo /\ [][NextLCUndo]_vars

\* evaluate_query_set is called once on the polynomials

InitEval ==
    /\ polys \in PolyLists
    /\ IdleEval
    /\ ParkedCK /\ ParkedVK /\ ParkedPrep /\ ParkedLC /\ ParkedBatch /\ ParkedLComm /\ ParkedGadgets

EvaluateQuerySet ==
    /\ evaluations.kind = "None"
    /\ \E qset \in QuerySets :
        /\ query_set' = qset
        /\ evaluations' = evaluate_query_set(polys, qset)
    /\ UNCHANGED <<polys, notEval>>

NextEval == EvaluateQuerySet

SpecEval == InitEval /\ [][NextEval]_vars

\* is_hiding is called on a BatchLCProof or on the BatchProof inside it

InitBatch ==
    /\ batch \in BatchLCProofs
    /\ IdleBatch
    /\ ParkedCK /\ ParkedVK /\ ParkedPrep /\ ParkedLC /\ ParkedEval /\ ParkedLComm /\ ParkedGadgets

BatchProofIsHiding ==
    /\ batchop = "init"
    /\ is_hiding' = batch_proof_is_hiding(batch.proof)
    /\ batchop' = "BatchProof::is_hiding"
    /\ UNCHANGED <<batch, notBatch>>

BatchLCProofIsHiding ==
    /\ batchop = "init"
    /\ is_hiding' = batch_lc_proof_is_hiding(batch)
    /\ batchop' = "BatchLCProof::is_hiding"
    /\ UNCHANGED <<batch, notBatch>>

NextBatch ==
    \/ BatchProofIsHiding
    \/ BatchLCProofIsHiding

SpecBatch == InitBatch /\ [][NextBatch]_vars

\* a LabeledCommitment is written

InitLComm ==
    /\ lcomm \in LabeledCommitments
    /\ IdleLComm
    /\ ParkedCK /\ ParkedVK /\ ParkedPrep /\ ParkedLC /\ ParkedEval /\ ParkedBatch /\ ParkedGadgets

LabeledCommitmentWriteLe ==
    /\ lcomm_out = <<>>
    /\ lcomm_out' = labeled_commitment_write_le(lcomm)
    /\ UNCHANGED <<lcomm, notLComm>>

NextLComm == LabeledCommitmentWriteLe

SpecLComm == InitLComm /\ [][NextLComm]_vars

----------------------------------------------------------------------------
(* Properties of the CommitterKey *)

HasDegreeBoundSupport(k) ==
    k.shifted_powers_of_beta_g.some /\ k.shifted_powers_of_beta_times_gamma_g.some

CleanRead == ckop.name = "read_le" /\ ~ckop.arg.some

TamperedRead == ckop.name = "read_le" /\ ckop.arg.some

\* C1: read_le of the bytes write_le wrote for a key succeeds and returns a key
\* equal to the written one in every field.
C1_RoundTrip ==
    CleanRead =>
        /\ rd.kind = "Ok"
        /\ rd.key.powers_of_beta_g = ck.powers_of_beta_g
        /\ rd.key.lagrange_bases_at_beta_g = ck.lagrange_bases_at_beta_g
        /\ rd.key.powers_of_beta_times_gamma_g = ck.powers_of_beta_times_gamma_g
        /\ rd.key.shifted_powers_of_beta_g = ck.shifted_powers_of_beta_g
        /\ rd.key.shifted_powers_of_beta_times_gamma_g = ck.shifted_powers_of_beta_times_gamma_g
        /\ rd.key.enforced_degree_bounds = ck.enforced_degree_bounds
        /\ rd.key.max_degree = ck.max_degree

\* a key with degree-bound support, two bounds and two Lagrange bases was read back
C1_Witness ==
    /\ CleanRead
    /\ rd.kind = "Ok"
    /\ HasDegreeBoundSupport(ck)
    /\ Len(ck.enforced_degree_bounds.v) = 2
    /\ Cardinality(DOMAIN ck.lagrange_bases_at_beta_g) = 2

\* C2: after any single group element of a serialized key is changed, read_le
\* fails with the integrity error.
C2_TamperDetected ==
    TamperedRead => rd.kind = "Err" /\ rd.err = IntegrityError

\* The digest the specification describes: the encodings of powers_of_beta_g,
\* then powers_of_beta_times_gamma_g, then the shifted arrays when present.
DigestOf(k) ==
    Sha256(k.powers_of_beta_g \o k.powers_of_beta_times_gamma_g
           \o (IF k.shifted_powers_of_beta_g.some
               THEN k.shifted_powers_of_beta_g.v ELSE <<>>)
           \o (IF k.shifted_powers_of_beta_times_gamma_g.some
               THEN LET m == k.shifted_powers_of_beta_times_gamma_g.v
                        ks == SortedKeys(DOMAIN m)
                    IN Flatten([i \in 1..Len(ks) |-> m[ks[i]]])
               ELSE <<>>))

\* C3: write_le stores the digest of the key's fields, read_le recomputes the
\* same digest from the fields it decoded, and read_le returns Ok only when the
\* stored digest equals the recomputed one.
C3_SameDigest ==
    /\ ckop.name = "write_le" => Last(bytes).v = DigestOf(ck)
    /\ CleanRead => rd.hash = Last(bytes).v
    /\ (ckop.name = "read_le" /\ rd.kind = "Ok") =>
            /\ rd.expected_hash = Last(bytes).v
            /\ rd.hash = DigestOf(rd.key)
            /\ rd.expected_hash = rd.hash
    /\ (ckop.name = "read_le" /\ rd.err = IntegrityError) => rd.expected_hash # rd.hash

\* a key with shifted arrays was read back and accepted
C3_Witness ==
    /\ ckop.name = "read_le"
    /\ rd.kind = "Ok"
    /\ rd.key.shifted_powers_of_beta_g.some
    /\ rd.key.shifted_powers_of_beta_times_gamma_g.some
    /\ rd.hash = DigestOf(ck)

ShiftedCall == ckop.name = "shifted_powers_of_beta_g"

\* the degree bound a call asks for is none of the enforced ones
UnsupportedBound ==
    /\ ckop.arg.some
    /\ ~(ck.enforced_degree_bounds.some
         /\ ckop.arg.v \in Range(ck.enforced_degree_bounds.v))

\* C4 (as stated): shifted_powers_of_beta_g returns None, without halting, for a
\* bound that is not enforced and for every argument of a key without
\* degree-bound support.
C4_NoneWhenUnsupported ==
    (ShiftedCall /\ (UnsupportedBound \/ ~HasDegreeBoundSupport(ck))) => ret.kind = "None"

\* C4 (amended): shifted_powers_of_beta_g returns None, without halting, for
\* every argument of a key without degree-bound support; on a key with
\* degree-bound support it halts for a bound that is not enforced.
C4_NoneOrHalt ==
    /\ (ShiftedCall /\ ~HasDegreeBoundSupport(ck)) => ret.kind = "None"
    /\ (ShiftedCall /\ HasDegreeBoundSupport(ck) /\ UnsupportedBound) => ret.kind = "Halt"

\* a key with degree-bound support was asked for a bound it does not enforce
C4_Witness ==
    /\ ShiftedCall
    /\ HasDegreeBoundSupport(ck)
    /\ UnsupportedBound
    /\ ret.kind = "Halt"

\* the bound a supported call resolves to: the argument, or the largest bound
CalledBound ==
    IF ckop.arg.some THEN ckop.arg.v ELSE Last(ck.enforced_degree_bounds.v)

SupportedCall == ShiftedCall /\ HasDegreeBoundSupport(ck) /\ ~UnsupportedBound

\* C5: for an enforced bound b (the largest one when none is given) the result
\* is the suffix of the shared shifted array from index max_bound - b, so its
\* first element is shifted_powers_of_beta_g[max_bound - b], with the hiding
\* basis stored under the key b.
C5_SuffixAndHiding ==
    SupportedCall =>
        LET shifted == ck.shifted_powers_of_beta_g.v
            off == Last(ck.enforced_degree_bounds.v) - CalledBound
        IN  /\ ret.kind = "Some"
            /\ Len(ret.powers_of_beta_g) >= 1
            /\ ret.powers_of_beta_g[1] = shifted[off + 1]
            /\ \A i \in 1..Len(ret.powers_of_beta_g) :
                    ret.powers_of_beta_g[i] = shifted[off + i]
            /\ off + Len(ret.powers_of_beta_g) = Len(shifted)
            /\ ret.powers_of_beta_times_gamma_g
                    = ck.shifted_powers_of_beta_times_gamma_g.v[CalledBound]

\* a bound below the largest was asked for, so the suffix starts inside the array
C5_Witness ==
    /\ SupportedCall
    /\ ckop.arg.some
    /\ CalledBound < Last(ck.enforced_degree_bounds.v)
    /\ ret.kind = "Some"
    /\ ret.powers_of_beta_g[1] # ck.shifted_powers_of_beta_g.v[1]

\* C6 (as stated): shifted_powers_of_beta_g(di) returns exactly
\* max_bound - di + 1 elements.
C6_LengthAsStated ==
    (SupportedCall /\ ckop.arg.some) =>
        Len(ret.powers_of_beta_g) = Last(ck.enforced_degree_bounds.v) - ckop.arg.v + 1

\* C6 (amended): shifted_powers_of_beta_g(di) returns every element of the
\* shared array from index max_bound - di on, that is
\* len(shifted_powers_of_beta_g) - (max_bound - di) elements.
C6_LengthOfSuffix ==
    (SupportedCall /\ ckop.arg.some) =>
        /\ ret.kind = "Some"
        /\ Len(ret.powers_of_beta_g)
             = Len(ck.shifted_powers_of_beta_g.v)
               - (Last(ck.enforced_degree_bounds.v) - ckop.arg.v)

\* the smallest of two enforced bounds was asked for
C6_Witness ==
    /\ SupportedCall
    /\ ckop.arg.some
    /\ Len(ck.enforced_degree_bounds.v) = 2
    /\ ckop.arg.v = ck.enforced_degree_bounds.v[1]
    /\ Len(ret.powers_of_beta_g) < Len(ck.shifted_powers_of_beta_g.v)

----------------------------------------------------------------------------
(* Properties of the VerifierKey *)

\* the pair of the list with degree bound b, if any
PairsWith(list, b) == {i \in 1..Len(list) : list[i][1] = b}

\* C7: get_shift_power(b) returns the element paired with b for every bound b
\* of the sorted list and None for every other bound (and for an absent list);
\* the result is always an ordinary Option.
C7_ShiftPowerLookup ==
    vkop.name = "get_shift_power" =>
        LET list == vk.degree_bounds_and_neg_powers_of_h
            b == vkop.arg
        IN  IF list.some /\ PairsWith(list.v, b) # {}
            THEN \E i \in PairsWith(list.v, b) : vkret = Some(list.v[i][2])
            ELSE vkret = None

\* the last of three bounds was looked up and found
C7_Witness ==
    /\ vkop.name = "get_shift_power"
    /\ vk.degree_bounds_and_neg_powers_of_h.some
    /\ Len(vk.degree_bounds_and_neg_powers_of_h.v) = 3
    /\ vkop.arg = vk.degree_bounds_and_neg_powers_of_h.v[3][1]
    /\ vkret.some

\* C8: the prepared key answers get_prepared_shift_power(b) with a present value
\* exactly when the source key answers get_shift_power(b) with one, and
\* prepare() copies max_degree and supported_degree.
C8_PreparedAgrees ==
    /\ vkop.name \in {"prepare", "get_prepared_shift_power"} =>
            /\ pvk.max_degree = vk.max_degree
            /\ pvk.supported_degree = vk.supported_degree
    /\ vkop.name = "get_prepared_shift_power" =>
            (vkret.some <=> get_shift_power(vk, vkop.arg).some)

\* a bound of a prepared key with two bounds was looked up and found
C8_Witness ==
    /\ vkop.name = "get_prepared_shift_power"
    /\ vk.degree_bounds_and_neg_powers_of_h.some
    /\ Len(vk.degree_bounds_and_neg_powers_of_h.v) = 2
    /\ vk.supported_degree < vk.max_degree
    /\ vkret.some

----------------------------------------------------------------------------
(* Properties of Commitment::prepare *)

\* base^e modulo m, by squaring
RECURSIVE PowMod(_, _, _)
PowMod(base, e, m) ==
    IF e = 0 THEN 1 % m
    ELSE LET h == PowMod(base, e \div 2, m)
         IN IF e % 2 = 0 THEN (h * h) % m ELSE (((h * h) % m) * base) % m

\* k times the point p, for the scalar k given modulo the group order
ScalarMul(k, p) == (k * p) % GroupOrder

\* C9: Commitment::prepare returns exactly 128 elements, the i-th (from 0)
\* being 2^i times the commitment, element 0 the commitment itself.
C9_DoublingLadder ==
    /\ \A i \in 1..Len(prepared_comm) :
            prepared_comm[i] = ScalarMul(PowMod(2, i - 1, GroupOrder), comm)
    /\ prep_pc = "done" =>
            /\ Len(prepared_comm) = 128
            /\ prepared_comm[1] = comm

\* the ladder of a commitment other than the identity was returned
C9_Witness ==
    /\ prep_pc = "done"
    /\ comm # 0
    /\ Len(prepared_comm) = 128
    /\ prepared_comm[2] # prepared_comm[1]

----------------------------------------------------------------------------
(* Properties of LinearCombination *)

\* C10: add(c, t) sets the coefficient of t to the old coefficient (zero when t
\* was absent) plus c, removes t when that sum is zero, and leaves the other
\* terms and the label unchanged; new("l", [(a,"x"),(b,"y")]) followed by
\* add(-a, "x") leaves exactly the entry "y" |-> b.
C10_AddSetsOrRemoves ==
    /\ lcop.name = "add" =>
        LET t == lcop.t
            sum == FAdd(IF t \in DOMAIN lcprev.terms THEN lcprev.terms[t] ELSE 0, lcop.c)
        IN  /\ sum = 0 => t \notin DOMAIN lc.terms
            /\ sum # 0 => (t \in DOMAIN lc.terms /\ lc.terms[t] = sum)
            /\ \A u \in LCTerms \ {t} :
                /\ u \in DOMAIN lc.terms <=> u \in DOMAIN lcprev.terms
                /\ u \in DOMAIN lc.terms => lc.terms[u] = lcprev.terms[u]
            /\ lc.label = lcprev.label
    /\ \A a \in F, b \in F :
        ( /\ lcprevop.name = "new"
          /\ lcprevop.label = StrL
          /\ lcprevop.items = <<<<a, PolyLabel(StrX)>>, <<b, PolyLabel(StrY)>>>>
          /\ lcop.name = "add"
          /\ lcop.c = FNeg(a)
          /\ lcop.t = PolyLabel(StrX) )
        => ( /\ DOMAIN lc.terms = {PolyLabel(StrY)}
             /\ lc.terms[PolyLabel(StrY)] = b
             /\ lc.label = StrL )

\* new("l", [(a,"x"),(b,"y")]) with a # 0 was followed by add(-a, "x")
C10_Witness ==
    /\ lcprevop.name = "new"
    /\ Len(lcprevop.items) = 2
    /\ lcprevop.items[1][2] = PolyLabel(StrX)
    /\ lcprevop.items[2][2] = PolyLabel(StrY)
    /\ lcprevop.items[1][1] # 0
    /\ lcop.name = "add"
    /\ lcop.t = PolyLabel(StrX)
    /\ lcop.c = FNeg(lcprevop.items[1][1])
    /\ DOMAIN lcprev.terms = {PolyLabel(StrX), PolyLabel(StrY)}
    /\ DOMAIN lc.terms = {PolyLabel(StrY)}

\* the operations that are carried out by calls of add
AddLikeOps ==
    {"add", "add_assign_scaled", "sub_assign_scaled", "add_assign", "sub_assign",
     "add_assign_const", "sub_assign_const"}

\* the terms the last operation called add on
TouchedTerms ==
    IF lcop.name = "add" THEN {lcop.t}
    ELSE IF lcop.name \in {"add_assign_const", "sub_assign_const"} THEN {One}
    ELSE IF lcop.name \in AddLikeOps THEN DOMAIN other.terms
    ELSE {}

HasNoZero(L) == \A t \in DOMAIN L.terms : L.terms[t] # 0

\* C11 (as stated): no term of a combination reached by new, add, +=, -= and
\* *= has a zero coefficient.
C11_NoZeroCoefficient == HasNoZero(lc)

\* C11 (amended): add, += and -= never leave a zero coefficient on a term they
\* touch (the term is removed instead) and create none elsewhere, so they keep
\* a combination free of zero coefficients; zero coefficients come from new
\* and *= only.
C11_AddLikeLeavesNoZero ==
    lcop.name \in AddLikeOps =>
        /\ \A t \in DOMAIN lc.terms :
            lc.terms[t] = 0 =>
                /\ t \notin TouchedTerms
                /\ t \in DOMAIN lcprev.terms
                /\ lcprev.terms[t] = 0
        /\ HasNoZero(lcprev) => HasNoZero(lc)

\* L -= M drove a non-zero coefficient of L to zero and the term was removed
C11_Witness ==
    /\ lcop.name = "sub_assign"
    /\ HasNoZero(lcprev)
    /\ \E t \in DOMAIN lcprev.terms \cap DOMAIN other.terms :
        /\ other.terms[t] # 0
        /\ t \notin DOMAIN lc.terms
    /\ lc.terms # NoTerms

\* the sum of the coefficients of the occurrences of t among items[1..n]
RECURSIVE SumOfOccurrences(_, _, _)
SumOfOccurrences(items, t, n) ==
    IF n = 0 THEN 0
    ELSE FAdd(SumOfOccurrences(items, t, n - 1), IF items[n][2] = t THEN items[n][1] ELSE 0)

ItemOrders(n) == {f \in [1..n -> 1..n] : \A i, j \in 1..n : f[i] = f[j] => i = j}

\* C12: new(label, items) has one entry per distinct term of items, with the
\* sum of the coefficients of its occurrences, in whatever order the items
\* come; empty(label) has no terms.
C12_NewMergesBySum ==
    /\ lcop.name = "new" =>
        LET items == lcop.items
            n == Len(items)
        IN  /\ DOMAIN lc.terms = {items[i][2] : i \in 1..n}
            /\ \A t \in DOMAIN lc.terms : lc.terms[t] = SumOfOccurrences(items, t, n)
            /\ lc.label = lcop.label
            /\ \A f \in ItemOrders(n) :
                lc_new(lcop.label, [i \in 1..n |-> items[f[i]]]) = lc
    /\ lcop.name = "empty" => (lc.terms = NoTerms /\ lc.label = lcop.label)

\* new was given the same term twice, with non-zero coefficients
C12_Witness ==
    /\ lcop.name = "new"
    /\ Len(lcop.items) = 2
    /\ lcop.items[1][2] = lcop.items[2][2]
    /\ lcop.items[1][1] # 0
    /\ lcop.items[2][1] # 0
    /\ Cardinality(DOMAIN lc.terms) = 1

\* C13: L *= k replaces every coefficient c by c * k and keeps the set of
\* terms, len() and the label, also for k = 0.
C13_MulScalesInPlace ==
    lcop.name = "mul_assign" =>
        /\ DOMAIN lc.terms = DOMAIN lcprev.terms
        /\ \A t \in DOMAIN lc.terms : lc.terms[t] = FMul(lcprev.terms[t], lcop.c)
        /\ Cardinality(DOMAIN lc.terms) = Cardinality(DOMAIN lcprev.terms)
        /\ lc.label = lcprev.label

\* a combination with two non-zero terms was multiplied by zero
C13_Witness ==
    /\ lcop.name = "mul_assign"
    /\ lcop.c = 0
    /\ Cardinality(DOMAIN lcprev.terms) = 2
    /\ HasNoZero(lcprev)
    /\ Cardinality(DOMAIN lc.terms) = 2

\* what one step of an assignment operator has to do to the coefficients:
\* every term t gets L[t] + k * M[t], absent terms counting as zero
TermwiseSum(k) ==
    \A t \in LCTerms :
        EntryOrZero(lc'.terms, t)
            = FAdd(EntryOrZero(lc.terms, t), FMul(k, EntryOrZero(other.terms, t)))

\* only the coefficient of One changes, by k
OnlyOneChanges(k) ==
    /\ EntryOrZero(lc'.terms, One) = FAdd(EntryOrZero(lc.terms, One), k)
    /\ \A t \in LCTerms \ {One} :
        /\ t \in DOMAIN lc'.terms <=> t \in DOMAIN lc.terms
        /\ t \in DOMAIN lc.terms => lc'.terms[t] = lc.terms[t]

AssignStep ==
    /\ lcop'.name = "add_assign_scaled" => TermwiseSum(lcop'.c)
    /\ lcop'.name = "sub_assign_scaled" => TermwiseSum(FNeg(lcop'.c))
    /\ lcop'.name = "add_assign" => TermwiseSum(1 % FieldP)
    /\ lcop'.name = "sub_assign" => TermwiseSum(FNeg(1 % FieldP))
    /\ lcop'.name = "add_assign_const" => OnlyOneChanges(lcop'.c)
    /\ lcop'.name = "sub_assign_const" => OnlyOneChanges(FNeg(lcop'.c))
    /\ lcop'.name \in AddLikeOps \ {"add"} =>
        /\ lc'.label = lc.label
        /\ other' = other
        /\ \A t \in DOMAIN lc'.terms \ DOMAIN lc.terms : lc'.terms[t] # 0

\* C14: L += (s, M) gives every term L[t] + s * M[t] and L -= (s, M) gives
\* L[t] - s * M[t], the unscaled forms being s = 1; L += c and L -= c change
\* only the coefficient of One, by c and -c; M is not modified.
C14_AssignIsTermwise == [][AssignStep]_vars

\* L -= (s, M) with s # 0 changed a term L and M share and added another
C14_Witness ==
    /\ lcop.name = "sub_assign_scaled"
    /\ lcop.c # 0
    /\ Cardinality(DOMAIN other.terms) = 2
    /\ HasNoZero(other)
    /\ \E t \in DOMAIN lcprev.terms \cap DOMAIN other.terms : lcprev.terms[t] # EntryOrZero(lc.terms, t)
    /\ \E t \in DOMAIN lc.terms : t \notin DOMAIN lcprev.terms

\* the strings "", "x", "xy", "y" and "l"
OrderStrings == {<<>>, StrX, StrX \o StrY, StrY, StrL}

OrderTerms == {One} \cup {PolyLabel(str) : str \in OrderStrings}

\* C15: the order on LCTerm is total, antisymmetric and transitive, One is
\* below every PolyLabel, PolyLabels compare as their strings, One equals no
\* PolyLabel and no string, and iteration over the terms of a combination
\* visits One first and then the labels in ascending order.
C15_TermOrder ==
    /\ \A a, b \in OrderTerms :
        /\ LCTermLess(a, b) \/ LCTermEq(a, b) \/ LCTermLess(b, a)
        /\ ~(LCTermLess(a, b) /\ LCTermLess(b, a))
        /\ ~(LCTermLess(a, b) /\ LCTermEq(a, b))
        /\ LCTermEq(a, b) <=> a = b
    /\ \A a, b, c \in OrderTerms :
        LCTermLess(a, b) /\ LCTermLess(b, c) => LCTermLess(a, c)
    /\ \A str \in OrderStrings :
        /\ LCTermLess(One, PolyLabel(str))
        /\ ~LCTermEq(One, PolyLabel(str))
        /\ ~LCTermEq(PolyLabel(str), One)
        /\ ~LCTermEqString(One, str)
        /\ LCTermEqString(PolyLabel(str), str)
    /\ LCTermLess(PolyLabel(<<>>), PolyLabel(StrX))
    /\ LCTermLess(PolyLabel(StrX), PolyLabel(StrX \o StrY))
    /\ LCTermLess(PolyLabel(StrX \o StrY), PolyLabel(StrY))
    /\ LCTermLess(PolyLabel(StrL), PolyLabel(StrX))
    /\ lcop.name = "iter" =>
        /\ {iterated[i][2] : i \in 1..Len(iterated)} = DOMAIN lc.terms
        /\ Len(iterated) = Cardinality(DOMAIN lc.terms)
        /\ \A i \in 1..Len(iterated) : iterated[i][1] = lc.terms[iterated[i][2]]
        /\ One \in DOMAIN lc.terms => iterated[1][2] = One
        /\ \A i, j \in 1..Len(iterated) :
            (i < j /\ iterated[i][2] # One) =>
                /\ iterated[j][2] # One
                /\ StrLess(iterated[i][2].label, iterated[j][2].label)

\* a combination with the terms One, "x" and "y" was iterated
C15_Witness ==
    /\ lcop.name = "iter"
    /\ Len(iterated) = 3
    /\ iterated[1][2] = One
    /\ iterated[2][2] = PolyLabel(StrX)
    /\ iterated[3][2] = PolyLabel(StrY)

----------------------------------------------------------------------------
(* Properties of evaluate_query_set *)

LabelsOf(ps) == {ps[i].label : i \in 1..Len(ps)}

DistinctLabels(ps) == \A i, j \in 1..Len(ps) : ps[i].label = ps[j].label => i = j

PolyWithLabel(ps, l) == ps[CHOOSE i \in 1..Len(ps) : ps[i].label = l]

\* the value of the polynomial: the sum of coeffs[i] * point^(i-1) for i in 1..n
RECURSIVE SumOfPowers(_, _, _)
SumOfPowers(coeffs, point, n) ==
    IF n = 0 THEN 0
    ELSE (SumOfPowers(coeffs, point, n - 1) + coeffs[n] * PowMod(point, n - 1, FieldP)) % FieldP

EvalCalled == evaluations.kind # "None"

\* C16: with distinct polynomial labels and every queried label among them,
\* evaluate_query_set returns the map whose keys are the (label, point) of the
\* queries and whose value at (label, point) is that polynomial at point; the
\* point name is in no key, so queries differing only in it give one entry.
C16_EvaluationsOfQueries ==
    ( /\ EvalCalled
      /\ DistinctLabels(polys)
      /\ \A q \in query_set : q[1] \in LabelsOf(polys) )
    => /\ evaluations.kind = "Ok"
       /\ DOMAIN evaluations.map = {<<q[1], q[2][2]>> : q \in query_set}
       /\ \A q \in query_set :
            LET coeffs == PolyWithLabel(polys, q[1]).coeffs
            IN evaluations.map[<<q[1], q[2][2]>>] = SumOfPowers(coeffs, q[2][2], Len(coeffs))
       /\ \A k \in DOMAIN evaluations.map : k[1] \in LabelsOf(polys) /\ k[2] \in F

\* two queries of "p" at the same point under different names gave one entry
C16_Witness ==
    /\ evaluations.kind = "Ok"
    /\ Len(polys) = 2
    /\ \E pt \in F : query_set = {Query(StrP, StrZ, pt), Query(StrP, StrW, pt)}
    /\ Cardinality(DOMAIN evaluations.map) = 1

\* C17: evaluate_query_set halts, returning no evaluations, whenever some
\* query names a label that is not among the polynomials, wherever that query
\* comes in the iteration.
C17_HaltsOnMissingLabel ==
    (EvalCalled /\ \E q \in query_set : q[1] \notin LabelsOf(polys))
        => evaluations = EvalHalt

\* the query with the missing label came after one that could be evaluated
C17_Witness ==
    /\ evaluations.kind = "Halt"
    /\ \E q1, q2 \in query_set :
        /\ q1[1] \in LabelsOf(polys)
        /\ q2[1] \notin LabelsOf(polys)
        /\ QueryLess(q1, q2)

----------------------------------------------------------------------------
(* Properties of BatchProof, BatchLCProof and LabeledCommitment *)

SomeProofHiding == \E i \in 1..Len(batch.proof) : batch.proof[i].random_v.some

\* C18: BatchProof::is_hiding is true exactly when some proof of the batch is
\* hiding (false for the empty batch), and BatchLCProof::is_hiding is that of
\* its inner BatchProof whatever the evaluations field holds.
C18_IsHidingIffAny ==
    /\ batchop = "BatchProof::is_hiding" => is_hiding = SomeProofHiding
    /\ batchop = "BatchLCProof::is_hiding" =>
        /\ is_hiding = SomeProofHiding
        /\ is_hiding = batch_proof_is_hiding(batch.proof)
        /\ \A ev \in EvaluationOptions :
            batch_lc_proof_is_hiding([batch EXCEPT !.evaluations = ev]) = is_hiding

\* a BatchLCProof with proofs [not hiding, hiding] and evaluations was asked
C18_Witness ==
    /\ batchop = "BatchLCProof::is_hiding"
    /\ Len(batch.proof) = 2
    /\ ~batch.proof[1].random_v.some
    /\ batch.proof[2].random_v.some
    /\ batch.evaluations.some
    /\ is_hiding

\* C19: write_le of a LabeledCommitment writes the compressed encoding of its
\* commitment and nothing else: every labeled commitment with the same
\* commitment, whatever its label and degree bound, is written the same.
C19_WritesBareCommitment ==
    lcomm_out # <<>> =>
        /\ lcomm_out = SerializeCompressed(lcomm.commitment)
        /\ \A c \in LabeledCommitments :
            c.commitment = lcomm.commitment => labeled_commitment_write_le(c) = lcomm_out

\* a commitment labeled "p" with a degree bound was written
C19_Witness ==
    /\ lcomm_out # <<>>
    /\ lcomm.label = StrP
    /\ lcomm.degree_bound.some
    /\ lcomm.commitment # 0

----------------------------------------------------------------------------
(* Properties of read_le on malformed input *)

\* the buffer is a strict prefix of the serialized key
TruncatedInput ==
    /\ Len(bytes) < Len(write_le(ck))
    /\ bytes = SubSeq(write_le(ck), 1, Len(bytes))

\* the buffer is the serialized key with one length prefix enlarged
OverAnnouncingInput ==
    /\ Len(bytes) = Len(write_le(ck))
    /\ \E i \in LengthPositions(ck) :
        /\ bytes[i].v > write_le(ck)[i].v
        /\ \A j \in 1..Len(bytes) : j # i => bytes[j] = write_le(ck)[j]

\* read_le of a truncated buffer returns an error
TruncatedIsDecodeError ==
    (ckop.name = "read_le" /\ TruncatedInput) => rd.kind = "Err"

\* C20: read_le of a strict prefix of a serialized key, or of a buffer whose
\* length prefixes announce more than it holds, returns an error: it neither
\* returns Ok nor halts.
C20_MalformedIsDecodeError ==
    (ckop.name = "read_le" /\ (TruncatedInput \/ OverAnnouncingInput)) => rd.kind = "Err"

----------------------------------------------------------------------------
(* Properties of the accessors on a key read back *)

ShiftedFieldsTogether(k) ==
    /\ k.shifted_powers_of_beta_g.some <=> k.shifted_powers_of_beta_times_gamma_g.some
    /\ k.shifted_powers_of_beta_g.some =>
        (k.enforced_degree_bounds.some /\ k.enforced_degree_bounds.v # <<>>)

\* C21: a key read_le accepts has both shifted fields or neither, has a
\* non-empty list of enforced bounds whenever it has them, and
\* shifted_powers_of_beta_g(None) does not halt on it.
C21_AcceptedKeyShiftedTogether ==
    /\ (ckop.name = "read_le" /\ rd.kind = "Ok") => ShiftedFieldsTogether(rd.key)
    /\ (ckop.name = "shifted_powers_of_beta_g" /\ ret.from = "read_le")
        => ret.out.kind # "Halt"

\* C22: on the Default key and on every key read_le accepts, powers_of_beta_g
\* has max_degree + 1 elements and supported_degree() returns that length less
\* one, a non-negative number equal to max_degree().
C22_SupportedDegreeIsMaxDegree ==
    (ckop.name = "supported_degree" /\ (ret.key = DefaultKey \/ ret.from = "read_le"))
        => /\ Len(ret.key.powers_of_beta_g) = ret.key.max_degree + 1
           /\ ret.out.kind = "Ok"
           /\ ret.out.v = Len(ret.key.powers_of_beta_g) - 1
           /\ ret.out.v >= 0
           /\ ret.out.v = max_degree(ret.key)

\* C23: lagrange_basis(domain) returns the basis stored under domain.size()
\* together with the key's powers_of_beta_times_gamma_g and the domain when the
\* key has that entry, and None otherwise; never the basis of another size.
C23_LagrangeBasisOfDomainSize ==
    ckop.name = "lagrange_basis" =>
        LET k   == ret.key
            d   == ckop.arg.v
            lag == k.lagrange_bases_at_beta_g
        IN  IF d.size \in DOMAIN lag
            THEN /\ ret.out.some
                 /\ ret.out.v.lagrange_basis_at_beta_g = lag[d.size]
                 /\ ret.out.v.powers_of_beta_times_gamma_g = k.powers_of_beta_times_gamma_g
                 /\ ret.out.v.domain = d
                 /\ \A n \in DOMAIN lag \ {d.size} :
                        ret.out.v.lagrange_basis_at_beta_g # lag[n]
            ELSE ret.out = None

C23_Witness ==
    /\ ckop.name = "lagrange_basis"
    /\ ret.from = "read_le"
    /\ ret.out.some
    /\ Cardinality(DOMAIN ret.key.lagrange_bases_at_beta_g) > 1

C23_WitnessNone ==
    /\ ckop.name = "lagrange_basis"
    /\ ret.out = None
    /\ ret.key.lagrange_bases_at_beta_g # EmptyMap

----------------------------------------------------------------------------
(* Integer<E, I>::div_checked (circuits/types/integers/src/div_checked.rs) *)
(* An Integer is its mode, the signedness of I and its I::BITS bits, least *)
(* significant first; a Boolean is its mode and its value.                 *)

Modes == {"Constant", "Public", "Private"}

\* I::MIN and I::MAX
IntMin(signed) == IF signed THEN 0 - Pow2(IntBits - 1) ELSE 0

IntMax(signed) == IF signed THEN Pow2(IntBits - 1) - 1 ELSE Pow2(IntBits) - 1

\* the two's complement bits of v, least significant first
BitsOf(v) == [i \in 1..IntBits |-> ((v % Pow2(IntBits)) \div Pow2(i - 1)) % 2 = 1]

RECURSIVE BitsValue(_)
BitsValue(bits) ==
    IF bits = <<>> THEN 0
    ELSE (IF Head(bits) THEN 1 ELSE 0) + 2 * BitsValue(Tail(bits))

Integer(mode, signed, v) == [mode |-> mode, signed |-> signed, bits_le |-> BitsOf(v)]

Boolean(mode, b) == [mode |-> mode, value |-> b]

is_constant(x) == x.mode = "Constant"

\* the mode of the result of an operation on x and y
ResultMode(x, y) == IF is_constant(x) /\ is_constant(y) THEN "Constant" ELSE "Private"

eject_value(x) ==
    IF x.signed /\ x.bits_le[IntBits]
    THEN BitsValue(x.bits_le) - Pow2(IntBits)
    ELSE BitsValue(x.bits_le)

msb(x) == Boolean(x.mode, x.bits_le[IntBits])

\* Integer::is_equal and Boolean::is_equal
is_equal(x, y) == Boolean(ResultMode(x, y), x.bits_le = y.bits_le)

bool_is_equal(p, q) == Boolean(ResultMode(p, q), p.value = q.value)

\* Boolean & Boolean: a constant operand decides or passes the other one through
BitAnd(p, q) ==
    IF is_constant(p) THEN (IF p.value THEN q ELSE p)
    ELSE IF is_constant(q) THEN (IF q.value THEN p ELSE q)
    ELSE Boolean("Private", p.value /\ q.value)

\* abs_wrapped: the absolute value, I::MIN staying I::MIN
abs_wrapped(x) ==
    IF eject_value(x) < 0
    THEN Integer(IF is_constant(x) THEN "Constant" ELSE "Private", x.signed, 0 - eject_value(x))
    ELSE x

\* cast_as_dual: the same bits read as the integer type of the other signedness
cast_as_dual(x) == [x EXCEPT !.signed = ~x.signed]

\* sub_wrapped: subtraction modulo 2^BITS
sub_wrapped(x, y) == Integer(ResultMode(x, y), x.signed, eject_value(x) - eject_value(y))

\* Integer::ternary: first when the condition holds, second otherwise
ternary(cond, first, second) ==
    IF is_constant(cond)
    THEN (IF cond.value THEN first ELSE second)
    ELSE [(IF cond.value THEN first ELSE second) EXCEPT
            !.mode = IF is_constant(first) /\ is_constant(second) /\ first = second
                     THEN "Constant" ELSE "Private"]

\* truncated division of native integers, the divisor not zero
TruncDiv(a, b) ==
    LET abs(x) == IF x < 0 THEN 0 - x ELSE x
        q == abs(a) \div abs(b)
    IN  IF (a < 0) = (b < 0) THEN q ELSE 0 - q

\* I::checked_div: None for a zero divisor and for MIN / -1
checked_div(signed, a, b) ==
    IF b = 0 \/ (signed /\ a = IntMin(signed) /\ b = 0 - 1)
    THEN None
    ELSE Some(TruncDiv(a, b))

\* what a call leaves behind: the value it returned unless it halted, and
\* whether every constraint it enforced is satisfied
Returned(x, sat) == [kind |-> "Ok", value |-> x, satisfied |-> sat]

Halted(msg) == [kind |-> "Halt", value |-> msg, satisfied |-> TRUE]

\* div_wrapped: the quotient of the ejected values (it halts on a zero divisor);
\* its own constraints are satisfied by the witness it computes
div_wrapped(x, y) ==
    IF eject_value(y) = 0
    THEN Halted("Division by zero error")
    ELSE Returned(Integer(ResultMode(x, y), x.signed,
                          TruncDiv(eject_value(x), eject_value(y))), TRUE)

\* E::assert_eq(p, E::zero()): a constraint on constants is evaluated at once
\* and halts when it fails; any other is added to the circuit
assert_eq_zero(p) ==
    IF is_constant(p)
    THEN (IF p.value THEN Halted("Constant constraint failed") ELSE Returned(p, TRUE))
    ELSE Returned(p, ~p.value)

\* The overflow guard dropped.
OverflowsNever(a, b) == Boolean("Constant", FALSE)

\* lines 80-83: `self.is_equal(&min) & other.is_equal(&neg_one)`
Overflows(a, b) ==
    LET min     == Integer("Constant", a.signed, IntMin(a.signed))
        neg_one == Integer("Constant", a.signed, 0 - 1)
    IN  BitAnd(is_equal(a, min), is_equal(b, neg_one))

\* The sign of the operands ignored.
SignedQuotientOfMagnitudes(a, b) ==
    LET q == div_wrapped(cast_as_dual(abs_wrapped(a)), cast_as_dual(abs_wrapped(b)))
    IN  IF q.kind = "Halt" THEN q
        ELSE Returned([q.value EXCEPT !.signed = a.signed], q.satisfied)

\* lines 86-98: divide the absolute values as unsigned integers, read the
\* quotient's bits as a signed integer and negate it when the signs differ
SignedQuotient(a, b) ==
    LET unsigned_dividend == cast_as_dual(abs_wrapped(a))
        unsigned_divisor  == cast_as_dual(abs_wrapped(b))
        unsigned_quotient == div_wrapped(unsigned_dividend, unsigned_divisor)
    IN  IF unsigned_quotient.kind = "Halt" THEN unsigned_quotient
        ELSE LET signed_quotient    == [unsigned_quotient.value EXCEPT !.signed = a.signed]
                 operands_same_sign == bool_is_equal(msb(a), msb(b))
                 zero               == Integer("Constant", a.signed, 0)
             IN  Returned(ternary(operands_same_sign, signed_quotient,
                                  sub_wrapped(zero, signed_quotient)),
                          unsigned_quotient.satisfied)

\* Integer::div_checked
div_checked(a, b) ==
    IF eject_value(b) = 0
    THEN Halted("Division by zero error")
    ELSE IF is_constant(a) /\ is_constant(b)
    THEN LET value == checked_div(a.signed, eject_value(a), eject_value(b))
         IN  IF value.some
             THEN Returned(Integer("Constant", a.signed, value.v), TRUE)
             ELSE Halted("Overflow or underflow on division of two integer constants")
    ELSE IF a.signed
    THEN LET asserted == assert_eq_zero(Overflows(a, b))
             quotient == SignedQuotient(a, b)
         IN  IF asserted.kind = "Halt" THEN asserted
             ELSE IF quotient.kind = "Halt" THEN quotient
             ELSE Returned(quotient.value, asserted.satisfied /\ quotient.satisfied)
    ELSE div_wrapped(a, b)

\* tests::check_div builds the two operands in the given modes; the circuit
\* is satisfied before the call.
InitDiv ==
    /\ \E signed \in BOOLEAN, mode_a \in Modes, mode_b \in Modes :
        \E first \in IntMin(signed)..IntMax(signed), second \in IntMin(signed)..IntMax(signed) :
            div = [op |-> "new", first |-> first, second |-> second,
                   a |-> Integer(mode_a, signed, first),
                   b |-> Integer(mode_b, signed, second),
                   out |-> Returned(Integer("Constant", signed, 0), TRUE)]
    /\ ParkedPC /\ ParkedFBits /\ ParkedTrie /\ ParkedRegs

DivChecked ==
    /\ div.op = "new"
    /\ div' = [div EXCEPT !.op = "div_checked", !.out = div_checked(div.a, div.b)]
    /\ UNCHANGED notDiv

NextDiv == DivChecked

SpecDiv == InitDiv /\ [][NextDiv]_vars

\* q is the quotient of a by b rounded toward zero: the remainder is smaller
\* than the divisor and has the sign of the dividend
IsQuotientTowardZero(q, a, b) ==
    LET r == a - q * b
        abs(x) == IF x < 0 THEN 0 - x ELSE x
    IN  /\ abs(r) < abs(b)
        /\ r = 0 \/ ((r < 0) = (a < 0))

\* the pair for which native checked division is not defined though b # 0
IsMinByMinusOne == div.a.signed /\ div.first = IntMin(TRUE) /\ div.second = 0 - 1

\* C24: for b # 0 and (a, b) other than signed MIN / -1, in every combination
\* of modes, div_checked returns the quotient of a by b rounded toward zero
\* and leaves the circuit satisfied.
C24_DivCheckedIsNativeQuotient ==
    (div.op = "div_checked" /\ div.second # 0 /\ ~IsMinByMinusOne) =>
        /\ div.out.kind = "Ok"
        /\ div.out.satisfied
        /\ div.out.value.signed = div.a.signed
        /\ IsQuotientTowardZero(eject_value(div.out.value), div.first, div.second)

C24_Witness ==
    /\ div.op = "div_checked"
    /\ div.a.signed
    /\ div.a.mode = "Private" /\ div.b.mode = "Public"
    /\ div.first = IntMin(TRUE) /\ div.second = 2
    /\ eject_value(div.out.value) = 0 - Pow2(IntBits - 2)

\* C25: div_checked halts for a zero divisor in every combination of modes;
\* for signed MIN / -1 it halts when both operands are constants and
\* otherwise returns with the circuit unsatisfied; for every other pair it
\* returns with the circuit satisfied.
C25_HaltsAndUnsatisfiedCases ==
    div.op = "div_checked" =>
        IF div.second = 0
        THEN div.out.kind = "Halt"
        ELSE IF IsMinByMinusOne
        THEN IF is_constant(div.a) /\ is_constant(div.b)
             THEN div.out.kind = "Halt"
             ELSE div.out.kind = "Ok" /\ ~div.out.satisfied
        ELSE div.out.kind = "Ok" /\ div.out.satisfied

C25_Witness ==
    /\ div.op = "div_checked"
    /\ IsMinByMinusOne
    /\ div.a.mode = "Constant" /\ div.b.mode = "Private"
    /\ div.out.kind = "Ok" /\ ~div.out.satisfied

----------------------------------------------------------------------------
(* Field<E>::from_bits_le / from_bits_be (circuit/types/field/src/helpers/from_bits.rs) *)
(* The base field is Z_BaseModulus; a bit is a Boolean (mode and value).               *)

\* E::BaseField::size_in_bits(): the number of bits of the modulus
size_in_bits == CHOOSE n \in 1..16 : Pow2(n - 1) <= BaseModulus /\ BaseModulus < Pow2(n)

\* E::BaseField::size_in_data_bits(): the capacity, one bit less
size_in_data_bits == size_in_bits - 1

\* to_bits_le of a native field element: size_in_bits bits, least significant first
NativeBitsLe(v) == [i \in 1..size_in_bits |-> (v \div Pow2(i - 1)) % 2 = 1]

Reverse(s) == [i \in 1..Len(s) |-> s[Len(s) + 1 - i]]

\* Boolean | Boolean and !Boolean, constants propagated
BitOr(p, q) ==
    IF is_constant(p) THEN (IF p.value THEN p ELSE q)
    ELSE IF is_constant(q) THEN (IF q.value THEN q ELSE p)
    ELSE Boolean("Private", p.value \/ q.value)

Not(p) == Boolean(p.mode, ~p.value)

\* E::assert(p): as assert_eq, a failing constraint on a constant halts
assert(p) ==
    IF is_constant(p)
    THEN (IF p.value THEN Returned(p, TRUE) ELSE Halted("Constant constraint failed"))
    ELSE Returned(p, p.value)

\* line 34: `fold(Boolean::constant(false), |acc, bit| acc | bit)`
RECURSIVE FoldOr(_, _)
FoldOr(acc, bits) ==
    IF bits = <<>> THEN acc ELSE FoldOr(BitOr(acc, Head(bits)), Tail(bits))

\* The two arms of the fold exchanged.
RECURSIVE IsGreaterFoldSwapped(_, _, _)
IsGreaterFoldSwapped(this, that, rest_is_less) ==
    IF this = <<>> THEN rest_is_less
    ELSE IsGreaterFoldSwapped(Tail(this), Tail(that),
            IF Head(this) THEN BitOr(Head(that), rest_is_less)
                          ELSE BitAnd(Head(that), rest_is_less))

\* lines 50-55: the fold over (modulus - 1, bits_le), least significant bit
\* first, that computes `(MODULUS - 1) < bits_le`
RECURSIVE IsGreaterFold(_, _, _)
IsGreaterFold(this, that, rest_is_less) ==
    IF this = <<>> THEN rest_is_less
    ELSE IsGreaterFold(Tail(this), Tail(that),
            IF Head(this) THEN BitAnd(Head(that), rest_is_less)
                          ELSE BitOr(Head(that), rest_is_less))

Take(s, n) == SubSeq(s, 1, Min(n, Len(s)))

\* lines 63-68: the linear combination 2^i * b_i of the first size_in_bits bits
RECURSIVE Recompose(_, _)
Recompose(bits, coefficient) ==
    IF bits = <<>> THEN 0
    ELSE ((IF Head(bits).value THEN coefficient ELSE 0)
            + Recompose(Tail(bits), (2 * coefficient) % BaseModulus)) % BaseModulus

\* The excess bits kept in the cached list.
SanitizedBitsUntruncated(bits_le) ==
    bits_le \o [i \in 1..(size_in_bits - Len(bits_le)) |-> Boolean("Constant", FALSE)]

\* lines 71-72: the first size_in_bits bits, resized with constant false bits
SanitizedBits(bits_le) ==
    Take(bits_le, size_in_bits)
        \o [i \in 1..(size_in_bits - Len(bits_le)) |-> Boolean("Constant", FALSE)]

\* Field::from_bits_le
from_bits_le(bits_le) ==
    LET num_bits == Len(bits_le)
        none     == Returned(Boolean("Constant", FALSE), TRUE)
        excess   ==
            IF num_bits > size_in_bits
            THEN assert_eq_zero(FoldOr(Boolean("Constant", FALSE),
                                       SubSeq(bits_le, size_in_bits + 1, num_bits)))
            ELSE none
        in_range ==
            IF num_bits > size_in_data_bits
            THEN assert(Not(IsGreaterFold(NativeBitsLe(BaseModulus - 1),
                                          SubSeq(bits_le, 1, size_in_bits),
                                          Boolean("Constant", FALSE))))
            ELSE none
        output   == [value |-> Recompose(Take(bits_le, size_in_bits), 1),
                     bits_le |-> SanitizedBits(bits_le)]
    IN  IF excess.kind = "Halt" THEN excess
        ELSE IF in_range.kind = "Halt" THEN in_range
        ELSE Returned(output, excess.satisfied /\ in_range.satisfied)

\* Field::from_bits_be
from_bits_be(bits_be) == from_bits_le(Reverse(bits_be))

\* the lists of at most size_in_bits + MaxExcess bits; the bits of a list are
\* constants or share one non-constant mode
BitLists ==
    UNION {UNION {[1..n -> {Boolean(m, b) : m \in {"Constant", mode}, b \in BOOLEAN}] :
                    n \in 0..(size_in_bits + MaxExcess)} :
            mode \in {"Public", "Private"}}

InitFBits ==
    /\ \E bits \in BitLists :
        fbits = [op |-> "new", bits |-> bits, out |-> Returned(<<>>, TRUE)]
    /\ ParkedPC /\ ParkedDiv /\ ParkedTrie /\ ParkedRegs

FromBitsLe ==
    /\ fbits.op = "new"
    /\ fbits' = [fbits EXCEPT !.op = "from_bits_le", !.out = from_bits_le(fbits.bits)]
    /\ UNCHANGED notFBits

FromBitsBe ==
    /\ fbits.op = "new"
    /\ fbits' = [fbits EXCEPT !.op = "from_bits_be", !.out = from_bits_be(fbits.bits)]
    /\ UNCHANGED notFBits

NextFBits == FromBitsLe \/ FromBitsBe

SpecFBits == InitFBits /\ [][NextFBits]_vars

\* Field::new(mode, x).to_bits_le() followed by k false bits of that mode
PaddedBitsLe(mode, x, k) ==
    [i \in 1..(size_in_bits + k) |->
        Boolean(mode, IF i <= size_in_bits THEN NativeBitsLe(x)[i] ELSE FALSE)]

\* the call returned x with the circuit satisfied and size_in_bits cached bits
YieldsElement(x) ==
    /\ fbits.out.kind = "Ok"
    /\ fbits.out.satisfied
    /\ fbits.out.value.value = x
    /\ Len(fbits.out.value.bits_le) = size_in_bits

\* C26: from_bits_le of x.to_bits_le() followed by k false bits, and
\* from_bits_be of x.to_bits_be() preceded by k false bits, return x, leave the
\* circuit satisfied and cache exactly size_in_bits bits, in every mode.
C26_PaddedEncodingYieldsElement ==
    \A x \in 0..(BaseModulus - 1), mode \in Modes, k \in 0..MaxExcess :
        /\ (fbits.op = "from_bits_le" /\ fbits.bits = PaddedBitsLe(mode, x, k))
            => YieldsElement(x)
        /\ (fbits.op = "from_bits_be" /\ fbits.bits = Reverse(PaddedBitsLe(mode, x, k)))
            => YieldsElement(x)

C26_Witness ==
    /\ fbits.op = "from_bits_be"
    /\ fbits.bits = Reverse(PaddedBitsLe("Private", BaseModulus - 1, MaxExcess))
    /\ YieldsElement(BaseModulus - 1)

\* the integer the bits encode, least significant first
RECURSIVE IntegerOf(_)
IntegerOf(bits) ==
    IF bits = <<>> THEN 0
    ELSE (IF Head(bits).value THEN 1 ELSE 0) + 2 * IntegerOf(Tail(bits))

\* the list encodes an integer below the modulus
EncodesElement(bits) == IntegerOf(bits) < BaseModulus

----------------------------------------------------------------------------
(* MerkleTriePathGadget (gadgets/src/algorithms/merkle_trie/merkle_trie_path.rs)     *)
(* A hash output is the record of what was hashed, so that two outputs are equal     *)
(* only when their inputs are: the CRH has no collisions.  UInt8 gadgets are their   *)
(* values; every allocation succeeds.                                                *)

\* crh.check_evaluation_gadget on the bytes of the value followed by the child roots
CRH(value, child_roots) == [value |-> value, children |-> child_roots]

\* <P::H as CRH>::Output::default()
filler_sibling == CRH(<<0 - 1>>, <<>>)

\* the filler value `vec![0u8; P::VALUE_SIZE]`
FillerValue == <<0>>

\* UInt8::less_than and UInt8::is_eq on the values
less_than(a, b) == a < b

is_eq(a, b) == a = b

\* conditionally_select: first when the condition holds, second otherwise
conditionally_select(cond, first, second) == IF cond THEN first ELSE second

\* Vec::insert(j, x), j counted from 0
InsertAt(seq, j, x) == SubSeq(seq, 1, j) \o <<x>> \o SubSeq(seq, j + 1, Len(seq))

\* MerkleTriePathGadget::hash_node: the key is not hashed (lines 150-151)
hash_node(value, child_roots) == CRH(value, child_roots)

\* lines 75-100: the siblings the first loop selects; j runs over 0..len-1
RECURSIVE SelectSiblings(_, _, _)
SelectSiblings(siblings, j, sibling_roots) ==
    IF j >= Len(siblings[2]) THEN sibling_roots
    ELSE LET add_sibling == Append(sibling_roots, siblings[2][j + 1])
             index_is_in_range == less_than(siblings[1], j)
         IN  SelectSiblings(siblings, j + 1,
                conditionally_select(index_is_in_range, add_sibling, sibling_roots))

\* lines 103-123: the second loop; it inserts sibling_roots[j] itself at j when
\* j is the position, and never uses curr_hash
RECURSIVE InsertCurrent(_, _, _, _, _)
InsertCurrent(sibling_roots, position, curr_hash, j, final_siblings) ==
    IF j >= Len(sibling_roots) THEN final_siblings
    ELSE LET add_sibling == InsertAt(sibling_roots, j, sibling_roots[j + 1])
             index_is_correct == is_eq(j, position)
         IN  InsertCurrent(sibling_roots, position, curr_hash, j + 1,
                conditionally_select(index_is_correct, add_sibling, final_siblings))

\* lines 65-138: the levels from i on; `levels` records, for every level, the
\* running hash it started from and the child roots it hashed
RECURSIVE RootFrom(_, _, _, _)
RootFrom(g, i, curr_hash, levels) ==
    IF i >= Len(g.parents) THEN [root |-> curr_hash, levels |-> levels]
    ELSE LET parent_value   == g.parents[i + 1]
             position       == g.traversal[i + 1]
             siblings       == g.path[i + 1]
             sibling_roots  == SelectSiblings(siblings, 0, <<>>)
             final_siblings == InsertCurrent(sibling_roots, position, curr_hash, 0, sibling_roots)
             new_hash       == hash_node(parent_value, final_siblings)
             depth_is_in_range == less_than(g.depth, i)
             selected_hash  == conditionally_select(depth_is_in_range, new_hash, curr_hash)
         IN  RootFrom(g, i + 1, selected_hash,
                      Append(levels, [curr_hash |-> curr_hash, final_siblings |-> final_siblings]))

\* MerkleTriePathGadget::calculate_root
calculate_root(g, value) == RootFrom(g, 0, hash_node(value, <<>>), <<>>)

\* AllocGadget::alloc of a MerkleTriePath: every level is filled up to
\* MaxBranch siblings and the three vectors up to MaxTrieDepth levels
alloc(merkle_trie_path) ==
    LET n == Len(merkle_trie_path.parents)
        fillers(k) == [j \in 1..k |-> filler_sibling]
    IN  [traversal |-> merkle_trie_path.traversal \o [i \in 1..(MaxTrieDepth - n) |-> 0],
         path      |-> [i \in 1..n |->
                            <<Len(merkle_trie_path.path[i]),
                              merkle_trie_path.path[i]
                                \o fillers(MaxBranch - Len(merkle_trie_path.path[i]))>>]
                       \o [i \in 1..(MaxTrieDepth - n) |-> <<0, fillers(MaxBranch)>>],
         parents   |-> merkle_trie_path.parents \o [i \in 1..(MaxTrieDepth - n) |-> FillerValue],
         depth     |-> n]

\* the sibling j of level i of a native path, and the value of its parent
SiblingRoot(i, j) == CRH(<<100 + 10 * i + j>>, <<>>)

ParentValue(i) == <<20 + i>>

\* the native paths of n levels: any number of siblings and any position on every level
MerkleTriePaths(n) ==
    {[traversal |-> t,
      path      |-> [i \in 1..n |-> [j \in 1..c[i] |-> SiblingRoot(i, j)]],
      parents   |-> [i \in 1..n |-> ParentValue(i)]] :
        t \in [1..n -> 0..(MaxBranch - 1)], c \in [1..n -> 0..MaxBranch]}

LeafValues == {<<1>>, <<2>>}

NoRoot == [root |-> filler_sibling, levels |-> <<>>]

InitTrie ==
    /\ \E n \in 0..MaxTrieDepth :
        \E mtp \in MerkleTriePaths(n), v \in LeafValues, w \in LeafValues :
            /\ v # w
            /\ trie = [op |-> "alloc", native |-> mtp, gadget |-> alloc(mtp),
                       value |-> v, out |-> NoRoot, other_value |-> w, other_out |-> NoRoot]
    /\ ParkedPC /\ ParkedDiv /\ ParkedFBits /\ ParkedRegs

CalculateRoot ==
    /\ trie.op = "alloc"
    /\ trie' = [trie EXCEPT !.op = "calculate_root",
                            !.out = calculate_root(trie.gadget, trie.value)]
    /\ UNCHANGED notTrie

\* the same path, another leaf value
CalculateRootOther ==
    /\ trie.op = "calculate_root"
    /\ trie' = [trie EXCEPT !.op = "calculate_root_other",
                            !.other_out = calculate_root(trie.gadget, trie.other_value)]
    /\ UNCHANGED notTrie

NextTrie == CalculateRoot \/ CalculateRootOther

SpecTrie == InitTrie /\ [][NextTrie]_vars

\* the child roots of level i (from 1) as the claim describes them: the valid
\* siblings with the running hash inserted at traversal[i]
ChildRootsWithCurrent(i) ==
    InsertAt(trie.native.path[i], Min(trie.native.traversal[i], Len(trie.native.path[i])),
             trie.out.levels[i].curr_hash)

\* C28: on every level of the path the child roots hashed are the valid
\* siblings with the running hash inserted at traversal[i], and two different
\* leaf values on the same path give different roots.
C28_RootDependsOnLeaf ==
    /\ trie.op = "calculate_root" =>
        \A i \in 1..Len(trie.native.parents) :
            trie.out.levels[i].final_siblings = ChildRootsWithCurrent(i)
    /\ trie.op = "calculate_root_other" => trie.out.root # trie.other_out.root

\* the second half of C28 alone
C28_DifferentLeavesDifferentRoots ==
    trie.op = "calculate_root_other" => trie.out.root # trie.other_out.root

----------------------------------------------------------------------------
(* Registers (synthesizer/src/process/stack/registers/mod.rs)                    *)
(* An IndexMap is the sequence of its (index, value) entries in insertion order, *)
(* no index twice; a circuit value is a mode and the console value it ejects to. *)

CircuitValue(mode, v) == [mode |-> mode, ejects |-> v]

\* circuit::Eject::eject_value of a circuit register
register_eject_value(circuit_register) == circuit_register.ejects

MatchOk == [kind |-> "Ok", err |-> ""]

MatchErr(e) == [kind |-> "Err", err |-> e]

\* itertools' zip_eq panics when one iterator ends before the other
MatchHalt == [kind |-> "Halt", err |-> "itertools: .zip_eq() reached end of one iterator before the other"]

\* The loop over a plain zip, which stops at the end of the shorter map.
RECURSIVE EnsureFromZip(_, _, _)
EnsureFromZip(console_registers, circuit_registers, i) ==
    IF i > Len(console_registers) \/ i > Len(circuit_registers)
    THEN MatchOk
    ELSE IF console_registers[i][1] # circuit_registers[i][1]
    THEN MatchErr("Console and circuit register indices are mismatching")
    ELSE IF console_registers[i][2] # register_eject_value(circuit_registers[i][2])
    THEN MatchErr("The console and circuit register values do not match")
    ELSE EnsureFromZip(console_registers, circuit_registers, i + 1)

\* lines 124-135: the loop over `console_registers.iter().zip_eq(&circuit_registers)`
\* from the i-th pair on
RECURSIVE EnsureFrom(_, _, _)
EnsureFrom(console_registers, circuit_registers, i) ==
    IF i > Len(console_registers) /\ i > Len(circuit_registers)
    THEN MatchOk
    ELSE IF i > Len(console_registers) \/ i > Len(circuit_registers)
    THEN MatchHalt
    ELSE IF console_registers[i][1] # circuit_registers[i][1]
    THEN MatchErr("Console and circuit register indices are mismatching")
    ELSE IF console_registers[i][2] # register_eject_value(circuit_registers[i][2])
    THEN MatchErr("The console and circuit register values do not match")
    ELSE EnsureFrom(console_registers, circuit_registers, i + 1)

\* Registers::ensure_console_and_circuit_registers_match
ensure_console_and_circuit_registers_match(r) ==
    EnsureFrom(r.console_registers, r.circuit_registers, 1)

\* the insertion-ordered maps of at most MaxRegisters entries over the values vs
IndexMaps(vs) ==
    {m \in UNION {[1..n -> (0..MaxRegisters) \X vs] : n \in 0..MaxRegisters} :
        \A i \in 1..Len(m), j \in 1..Len(m) : i # j => m[i][1] # m[j][1]}

ConsoleValues == {0, 1}

InitRegs ==
    /\ \E console \in IndexMaps(ConsoleValues) :
        \E circuit \in IndexMaps({CircuitValue("Private", v) : v \in ConsoleValues}) :
            regs = [op |-> "new", console_registers |-> console,
                    circuit_registers |-> circuit, out |-> MatchOk]
    /\ ParkedPC /\ ParkedDiv /\ ParkedFBits /\ ParkedTrie

EnsureConsoleAndCircuitRegistersMatch ==
    /\ regs.op = "new"
    /\ regs' = [regs EXCEPT !.op = "ensure_console_and_circuit_registers_match",
                            !.out = ensure_console_and_circuit_registers_match(regs)]
    /\ UNCHANGED notRegs

NextRegs == EnsureConsoleAndCircuitRegistersMatch

SpecRegs == InitRegs /\ [][NextRegs]_vars

\* the two maps hold the same indices in the same order with equal ejected values
RegistersMatch ==
    /\ Len(regs.console_registers) = Len(regs.circuit_registers)
    /\ \A i \in 1..Len(regs.console_registers) :
        /\ regs.console_registers[i][1] = regs.circuit_registers[i][1]
        /\ regs.console_registers[i][2] = regs.circuit_registers[i][2].ejects

\* C29: the comparison returns Ok exactly when the two maps match, and an
\* error value, never a halt, in every other case, maps of different sizes
\* included.
C29_OkIffMatchElseError ==
    regs.op = "ensure_console_and_circuit_registers_match" =>
        IF RegistersMatch THEN regs.out.kind = "Ok" ELSE regs.out.kind = "Err"

\* the entries both maps have a partner for agree
CommonPrefixMatches ==
    \A i \in 1..Min(Len(regs.console_registers), Len(regs.circuit_registers)) :
        /\ regs.console_registers[i][1] = regs.circuit_registers[i][1]
        /\ regs.console_registers[i][2] = regs.circuit_registers[i][2].ejects

\* C29, amended: the comparison returns Ok exactly when the two maps match; it
\* halts when they differ in size and agree on every pair before the shorter
\* one ends; it returns an error value in every other case.
C29_OkIffMatchHaltOnSizes ==
    regs.op = "ensure_console_and_circuit_registers_match" =>
        /\ regs.out.kind = "Ok" <=> RegistersMatch
        /\ regs.out.kind = "Halt" <=>
            (Len(regs.console_registers) # Len(regs.circuit_registers) /\ CommonPrefixMatches)
        /\ regs.out.kind = "Err" <=> ~CommonPrefixMatches

C29_Witness ==
    /\ regs.op = "ensure_console_and_circuit_registers_match"
    /\ Len(regs.console_registers) = 2
    /\ Len(regs.circuit_registers) = 1
    /\ regs.out.kind = "Halt"

----------------------------------------------------------------------------
(* Scaled subtraction after scaled addition *)

\* L -= (s, M) has just followed L += (s, M); lcprev is L before the two
UndoneScaledAdd ==
    /\ lcop.name = "sub_assign_scaled"
    /\ lcprevop.name = "add_assign_scaled"
    /\ lcop.c = lcprevop.c

\* L holds no zero coefficient on the terms S
NoZeroOn(L, S) == \A t \in S \cap DOMAIN L.terms : L.terms[t] # 0

\* C30 (as stated): L += (s, M) followed by L -= (s, M) leaves the mapping of
\* L as it was, and add(0, t) leaves the mapping unchanged.
C30_SubUndoesAdd ==
    /\ UndoneScaledAdd => lc.terms = lcprev.terms
    /\ (lcop.name = "add" /\ lcop.c = 0) => lc.terms = lcprev.terms

\* C30 (amended): the same, for an L that holds no zero coefficient on a
\* term of M (on t); such an entry of L is removed instead.
C30_SubUndoesAddWithoutZeros ==
    /\ (UndoneScaledAdd /\ NoZeroOn(lcprev, DOMAIN other.terms))
        => lc.terms = lcprev.terms
    /\ (UndoneScaledAdd /\ ~NoZeroOn(lcprev, DOMAIN other.terms))
        => lc.terms = [t \in {u \in DOMAIN lcprev.terms :
                                u \in DOMAIN other.terms => lcprev.terms[u] # 0}
                        |-> lcprev.terms[t]]
    /\ (lcop.name = "add" /\ lcop.c = 0)
        => lc.terms = [t \in {u \in DOMAIN lcprev.terms : u = lcop.t => lcprev.terms[u] # 0}
                        |-> lcprev.terms[t]]

C30_Witness ==
    /\ UndoneScaledAdd
    /\ lcop.c # 0
    /\ NoZeroOn(lcprev, DOMAIN other.terms)
    /\ \E t \in DOMAIN other.terms \cap DOMAIN lcprev.terms :
        /\ other.terms[t] # 0
        /\ FAdd(lcprev.terms[t], FMul(lcop.c, other.terms[t])) = 0
    /\ lc.terms = lcprev.terms

====
